---- MODULE Spec2Model ----
(***************************************************************************)
(* go-netspeed: the browser client (the speedtest script with result       *)
(* sharing, src/unnamed/part_002) with its latency probe, local history    *)
(* and Jitter/Loss Analyzer, and the server (src/main.go): the /download   *)
(* handler, the result store with /save-result and /results/{id}, and the  *)
(* data channel echo.                                                      *)
(*                                                                         *)
(* Numbers.  Measured rates and latencies are abstract positive integers;  *)
(* what the page shows (toFixed(2)) and what finalizeTest parses back      *)
(* (parseFloat) is kept in hundredths.  Packet loss and jitter are exact   *)
(* fractions <<numerator, denominator>>.  Time is in abstract clock units. *)
(***************************************************************************)
EXTENDS Integers, Sequences, FiniteSets, Bags, TLC

\* ------------------------------------------------------------------ bounds
MaxRuns      == 2     \* clicks on the start button that are explored
MaxTime      == 5     \* a session's clock stops advancing here
MaxIceEvents == 1     \* ICE failed/disconnected events per session
MaxLate      == 0     \* clock units a due timer callback may be delayed
NUM_PACKETS  == 1     \* packets per exchange session (250 in the source)

\* --------------------------------------------------------------- constants
PACKET_INTERVAL   == 1   \* clock units between two sendPacket ticks
MAX_WAIT_BUFFER   == 2   \* clock units of grace after the last packet
MAX_HISTORY_ITEMS == 5

Runs == 1..MaxRuns

NA == -1                 \* the text 'N/A' of a result field / an unset property

\* ---------------------------------------------------------------- helpers
Max(a, b) == IF a > b THEN a ELSE b
Min(a, b) == IF a < b THEN a ELSE b
Abs(a)    == IF a < 0 THEN -a ELSE a

RECURSIVE GCD(_, _)
GCD(a, b) == IF b = 0 THEN a ELSE GCD(b, a % b)

\* the number n/d as a reduced fraction (d > 0, n >= 0)
Frac(n, d) == LET g == GCD(n, d) IN IF g = 0 THEN <<0, 1>> ELSE <<n \div g, d \div g>>

\* Number.prototype.toFixed(2) of a non-negative fraction, in hundredths
toFixed2(q) ==
    IF q[2] = 0 THEN NA          \* NaN.toFixed(2) is 'NaN', which parses to NaN
    ELSE (q[1] * 200 + q[2]) \div (2 * q[2])

\* parseFloat(innerText) || 0 : 'N/A' parses to NaN, which is falsy
parseFloatOr0(text) == IF text = NA THEN 0 ELSE text

\* JavaScript truthiness of a numeric property that may be unset
Truthy(v) == v # NA /\ v # 0

\* the same for a property held as a fraction
TruthyQ(q) == q[1] # NA /\ q[1] # 0

\* ------------------------------------------------------------------ state
VARIABLES
    disabled,         \* startButton.disabled, the in-flight flag
    results,          \* the global results object
    dom,              \* text of the five *-result elements
    shareUrl,         \* content of the share-url element
    history,          \* localStorage[HISTORY_KEY]
    curRun,           \* number of runAllTests invocations so far
    phase,            \* per run: position of its runAllTests coroutine
    sess,             \* per run: the closure state of its runWebRTCTest
    pendingSaves,     \* /save-result requests in flight
    posts,            \* per run: /save-result requests submitted
    analyzerCalls,    \* per run: invocations of calculateJitterLoss
    probe,            \* the locals of the running (or last) runLatencyTest
    downloadedBytes,  \* the byte count of the running (or last) runDownloadTest
    sizes,            \* the two size inputs and the sizes last taken from them
    page              \* the page load: the URL's query and the shared-result fetch

clientVars == <<disabled, results, dom, shareUrl, history, curRun, phase, sess,
                pendingSaves, posts, analyzerCalls, probe, downloadedBytes, sizes, page>>

\* the server
VARIABLES
    maxDownloadSize,      \* *maxDownloadSize after main's validation
    downloadChunkSize,    \* *downloadChunkSize
    dl                    \* one /download request and its response

\* the result store and its two handlers
VARIABLES
    store,                \* the Badger database: id -> stored JSON document
    accepted,             \* id -> the body /save-result answered 200 for
    resp                  \* the last /save-result or /results/ exchange

storeVars == <<store, accepted, resp>>

\* a peer connection created by webrtcOfferHandler and its data channels
VARIABLES
    rtc

\* one /upload request and its response
VARIABLES
    ul

serverVars == <<maxDownloadSize, downloadChunkSize, dl, storeVars, rtc, ul>>

vars == <<clientVars, serverVars>>

\* results = {} : latency, packet loss and jitter are fractions once set
EmptyResults == [latency |-> <<NA, 1>>, download |-> NA, upload |-> NA,
                 packetLoss |-> <<NA, 1>>, jitter |-> <<NA, 1>>]

\* the five result fields at 'N/A', the four status fields at 'Ready'
EmptyDom == [latency |-> NA, download |-> NA, upload |-> NA, loss |-> NA, jitter |-> NA,
             latencyStatus |-> "Ready", downloadStatus |-> "Ready",
             uploadStatus |-> "Ready", jitterStatus |-> "Ready"]

numPings == 10           \* round trips of one latency probe

\* log is the outcome of every trip so far: its round-trip time, or Dropped
\* for a trip that threw or came back with a non-success status
Dropped == -1
NoProbe == [pc |-> "idle", i |-> 0, latencies |-> <<>>, log |-> <<>>]

\* elapsed is Date.now() - startTestTime; every time of a session is kept
\* relative to its startTestTime
NoSession == [sig |-> "none", dc |-> "none", pcClosed |-> FALSE,
              packetCounter |-> 0, intervalId |-> FALSE, nextDue |-> 0,
              elapsed |-> 0, receivedTimestamps |-> <<>>,
              receivedCounter |-> 0, inflight |-> {},
              timeoutPending |-> FALSE, timeoutDue |-> 0, iceEvents |-> 0]

\* ------------------------------------------------ the client's size inputs
MaxInputLen == 3         \* characters typed into a size input
MAX_SIZE_MB == 100

\* the characters of a size input: digits, a sign, a decimal point, an
\* exponent mark, a letter
InputChars == {"0", "1", "2", "9", "-", ".", "e", "a"}
IsDigit(c) == c \in {"0", "1", "2", "9"}
DigitVal(c) == IF c = "0" THEN 0 ELSE IF c = "1" THEN 1 ELSE IF c = "2" THEN 2 ELSE 9

RECURSIVE TextsUpTo(_)
TextsUpTo(n) ==
    IF n = 0 THEN {<<>>}
    ELSE LET shorter == TextsUpTo(n - 1)
         IN  shorter \cup {Append(t, c) : t \in shorter, c \in InputChars}

\* the number of leading digits of text t from position i on
RECURSIVE digitRun(_, _)
digitRun(t, i) == IF i <= Len(t) /\ IsDigit(t[i]) THEN 1 + digitRun(t, i + 1) ELSE 0

\* the value of the digits t[i..j]
RECURSIVE digitsValue(_, _, _)
digitsValue(t, i, j) == IF j < i THEN 0 ELSE 10 * digitsValue(t, i, j - 1) + DigitVal(t[j])

NotANumber == [nan |-> TRUE, v |-> 0]
Num(v) == [nan |-> FALSE, v |-> v]

\* parseInt(text): an optional sign and the longest run of digits after it;
\* what follows the digits is ignored; NaN without a digit
parseInt(t) ==
    LET neg   == Len(t) >= 1 /\ t[1] = "-"
        first == IF neg THEN 2 ELSE 1
        k     == digitRun(t, first)
        v     == digitsValue(t, first, first + k - 1)
    IN  IF k = 0 THEN NotANumber ELSE Num(IF neg THEN -v ELSE v)

\* String(n) of an integer 1..100 assigned to input.value
RECURSIVE decimal(_)
decimal(n) ==
    LET c == IF n % 10 = 0 THEN "0" ELSE IF n % 10 = 1 THEN "1"
             ELSE IF n % 10 = 2 THEN "2" ELSE IF n % 10 = 9 THEN "9" ELSE "a"
    IN  IF n < 10 THEN <<c>> ELSE Append(decimal(n \div 10), c)

\* validateSize(input, max): the text input.value is left with
validateSize(value, max) ==
    LET p == parseInt(value)
    IN  IF p.nan \/ p.v < 1 THEN decimal(1)
        ELSE IF p.v > max THEN decimal(max)
        ELSE value

tenMB == <<"1", "0">>
NoSizes == [download |-> tenMB, upload |-> tenMB, requestedSizeMB |-> NA, sizeBytes |-> NA]

\* the page after window.onload, no shared result in the URL
\* ------------------------------------------------------------ the page load
\* new URLSearchParams(search).get('resultId'): null without the parameter
getResultId(search) ==
    IF search = "" THEN [null |-> TRUE, value |-> ""]
    ELSE IF search = "?resultId=" THEN [null |-> FALSE, value |-> ""]
    ELSE [null |-> FALSE, value |-> "2f1c"]

\* if (resultId): neither null nor the empty string
TruthyParam(p) == ~p.null /\ p.value # ""

\* a page loaded from a URL without a query
PlainPage == [loaded |-> TRUE, search |-> "", fetch |-> "none"]

InitClient ==
    /\ disabled = FALSE
    /\ results = EmptyResults
    /\ dom = EmptyDom
    /\ shareUrl = "none"
    /\ history = <<>>
    /\ curRun = 0
    /\ phase = [r \in Runs |-> "idle"]
    /\ sess = [r \in Runs |-> NoSession]
    /\ pendingSaves = EmptyBag
    /\ posts = [r \in Runs |-> 0]
    /\ analyzerCalls = [r \in Runs |-> 0]
    /\ probe = NoProbe
    /\ downloadedBytes = NA
    /\ sizes = NoSizes
    /\ page = PlainPage

\* the value a sub-test of run r measures
Measured(r) == r

\* ------------------------------------------------- Jitter/Loss Analyzer
NaN == <<0, 0>>          \* the result of a division by zero

\* the share of packets received instead of the share lost
lossPercent_received(rtts, totalPacketsSent) ==
    IF totalPacketsSent = 0 THEN NaN
    ELSE Frac(Len(rtts) * 100, totalPacketsSent)

\* calculateJitterLoss: ((totalPacketsSent - receivedPackets) / totalPacketsSent) * 100
lossPercent(rtts, totalPacketsSent) ==
    LET receivedPackets == Len(rtts)
    IN  IF totalPacketsSent = 0 THEN NaN
        ELSE Frac((totalPacketsSent - receivedPackets) * 100, totalPacketsSent)

\* calculateJitterLoss: the for loop over rtts[1..], carrying previousRTT
RECURSIVE sumOfDifferences(_, _, _, _)
sumOfDifferences(rtts, i, previousRTT, acc) ==
    IF i > Len(rtts) THEN acc
    ELSE sumOfDifferences(rtts, i + 1, rtts[i], acc + Abs(rtts[i] - previousRTT))

\* the sum divided by the number of samples instead of the number of deltas
averageJitter_perSample(rtts) ==
    IF Len(rtts) > 1
    THEN Frac(sumOfDifferences(rtts, 2, rtts[1], 0), Len(rtts))
    ELSE <<0, 1>>

\* calculateJitterLoss: receivedPackets > 1 ? sumOfDifferences / (receivedPackets - 1) : 0
averageJitter(rtts) ==
    LET receivedPackets == Len(rtts)
        previousRTT     == IF Len(rtts) > 0 THEN rtts[1] ELSE 0
    IN  IF receivedPackets > 1
        THEN Frac(sumOfDifferences(rtts, 2, previousRTT, 0), receivedPackets - 1)
        ELSE <<0, 1>>

\* ------------------------------------------------------- Result Aggregator
\* finalizeTest: the record read back from the page
finalResults(d) ==
    [downloadSpeedMbps |-> parseFloatOr0(d.download),
     uploadSpeedMbps   |-> parseFloatOr0(d.upload),
     latencyMs         |-> parseFloatOr0(d.latency),
     jitterMs          |-> parseFloatOr0(d.jitter),
     packetLossPercent |-> parseFloatOr0(d.loss)]

\* saveHistory: a falsy field is stored as 'N/A'
historyItem(by, result) ==
    [run        |-> by,
     latency    |-> IF Truthy(result.latencyMs) THEN result.latencyMs ELSE NA,
     download   |-> IF Truthy(result.downloadSpeedMbps) THEN result.downloadSpeedMbps ELSE NA,
     upload     |-> IF Truthy(result.uploadSpeedMbps) THEN result.uploadSpeedMbps ELSE NA,
     jitter     |-> IF Truthy(result.jitterMs) THEN result.jitterMs ELSE NA,
     packetLoss |-> IF Truthy(result.packetLossPercent) THEN result.packetLossPercent ELSE NA]

\* the new entry is pushed to the end and the last MAX_HISTORY_ITEMS are kept
saveHistory_pushLast(h, by, result) ==
    LET pushed == Append(h, historyItem(by, result))
    IN  IF Len(pushed) > MAX_HISTORY_ITEMS
        THEN SubSeq(pushed, Len(pushed) - MAX_HISTORY_ITEMS + 1, Len(pushed))
        ELSE pushed

\* saveHistory: unshift, then slice(0, MAX_HISTORY_ITEMS)
saveHistory(h, by, result) ==
    LET unshifted == <<historyItem(by, result)>> \o h
    IN  IF Len(unshifted) > MAX_HISTORY_ITEMS
        THEN SubSeq(unshifted, 1, MAX_HISTORY_ITEMS)
        ELSE unshifted

\* finalizeTest(success = true), up to the fetch: the share link is cleared
\* and the record read from page d is posted to /save-result.  r is the run
\* whose handler made the call.
finalizeTest(r, d) ==
    /\ shareUrl' = "none"
    /\ pendingSaves' = pendingSaves (+) SetToBag({[by |-> r, fr |-> finalResults(d)]})
    /\ posts' = [posts EXCEPT ![r] = @ + 1]

\* calculateJitterLoss(rtts, totalPacketsSent), called by a handler of run r
calculateJitterLoss(r, rtts, totalPacketsSent) ==
    LET loss == lossPercent(rtts, totalPacketsSent)
        jit  == averageJitter(rtts)
        d    == [dom EXCEPT !.loss = toFixed2(loss), !.jitter = toFixed2(jit),
                            !.jitterStatus = "Complete"]
    IN  /\ results' = [results EXCEPT !.packetLoss = loss, !.jitter = jit]
        /\ dom' = d
        /\ analyzerCalls' = [analyzerCalls EXCEPT ![r] = @ + 1]
        /\ finalizeTest(r, d)

\* the .finally of finalizeTest's fetch
saveResultSettled(s, ok) ==
    /\ BagIn(s, pendingSaves)
    /\ pendingSaves' = pendingSaves (-) SetToBag({s})
    /\ shareUrl' = IF ok THEN "link" ELSE "failed"
    /\ IF disabled /\ (TruthyQ(results.latency) \/ Truthy(results.download)
                        \/ Truthy(results.upload))
       THEN /\ history' = saveHistory(history, s.by, s.fr)
            /\ disabled' = FALSE
       ELSE UNCHANGED <<history, disabled>>
    /\ UNCHANGED <<serverVars, page, results, dom, curRun, phase, sess, posts, analyzerCalls, probe,
                   downloadedBytes, sizes>>

\* ------------------------------------------------------------- runAllTests
\* a click on the enabled start button: runAllTests up to the first await of
\* runLatencyTest, the fetch of trip 0
runAllTests(r) ==
    /\ page.loaded
    /\ ~disabled
    /\ r = curRun + 1
    /\ curRun' = r
    /\ disabled' = TRUE
    /\ dom' = [EmptyDom EXCEPT !.latencyStatus = "Pinging..."]
    /\ results' = EmptyResults
    /\ phase' = [phase EXCEPT ![r] = "latency"]
    /\ probe' = [NoProbe EXCEPT !.pc = "fetch"]
    /\ UNCHANGED <<serverVars, page, shareUrl, history, sess, pendingSaves, posts, analyzerCalls,
                   downloadedBytes, sizes>>

RECURSIVE Sum(_, _)
Sum(q, n) == IF n = 0 THEN 0 ELSE Sum(q, n - 1) + q[n]

\* the mean over every trip of the probe, a dropped trip counting as 0
avgLatency_allTrips(latencies) == Frac(Sum(latencies, Len(latencies)), numPings)

\* runLatencyTest: total / latencies.length
avgLatency(latencies) == Frac(Sum(latencies, Len(latencies)), Len(latencies))

\* the fetch of the current trip settles: a success pushes its round-trip
\* time, a thrown error or a non-success status pushes nothing
pingResponse(outcome) ==
    /\ probe.pc = "fetch"
    /\ probe' = [probe EXCEPT !.pc = "delay",
                              !.log = Append(@, outcome),
                              !.latencies = IF outcome = Dropped THEN @
                                            ELSE Append(@, outcome)]
    /\ UNCHANGED <<serverVars, page, disabled, results, dom, shareUrl, history, curRun, phase,
                   sess, pendingSaves, posts, analyzerCalls, downloadedBytes, sizes>>

\* runLatencyTest after its loop, with the locals p the loop ended with, up
\* to the first await of runDownloadTest
runLatencyTest(r, p) ==
    /\ phase[r] = "latency"
    /\ phase' = [phase EXCEPT ![r] = "download"]
    /\ probe' = [p EXCEPT !.pc = "done"]
    /\ IF Len(p.latencies) = 0
       THEN /\ dom' = [dom EXCEPT !.latencyStatus = "Failed to measure.",
                                  !.downloadStatus = "Testing Download..."]
            /\ UNCHANGED results
       ELSE /\ results' = [results EXCEPT !.latency = avgLatency(p.latencies)]
            /\ dom' = [dom EXCEPT !.latency = toFixed2(avgLatency(p.latencies)),
                                  !.latencyStatus = "Complete",
                                  !.downloadStatus = "Testing Download..."]
    /\ UNCHANGED <<serverVars, page, disabled, shareUrl, history, curRun, sess, pendingSaves,
                   posts, analyzerCalls, downloadedBytes, sizes>>

\* the 100 ms delay after a trip has elapsed: the next trip is fetched, or
\* the loop is over and the function goes on
pingDelay ==
    /\ probe.pc = "delay"
    /\ IF probe.i + 1 < numPings
       THEN /\ probe' = [probe EXCEPT !.pc = "fetch", !.i = @ + 1]
            /\ UNCHANGED <<serverVars, page, disabled, results, dom, shareUrl, history, curRun,
                           phase, sess, pendingSaves, posts, analyzerCalls, downloadedBytes,
                   sizes>>
       ELSE runLatencyTest(curRun, [probe EXCEPT !.i = @ + 1])

\* the locals a whole loop of run r ends with: every trip dropped, or every
\* trip a success
LoopOutcomes(r) ==
    { [pc |-> "delay", i |-> numPings, log |-> [k \in 1..numPings |-> Dropped],
       latencies |-> <<>>],
      [pc |-> "delay", i |-> numPings, log |-> [k \in 1..numPings |-> Measured(r)],
       latencies |-> [k \in 1..numPings |-> Measured(r)]] }

\* what the fetch of /download comes to: a body of some bytes, a response
\* that completes without a byte, or a throw (transport error, non-success
\* status, failed read)
DownloadOutcomes == {"ok", "zero", "error"}

\* downloadedBytes when the read loop is left; NA when the function threw
bytesRead(r, outcome) ==
    IF outcome = "ok" THEN 1048576 * Measured(r) ELSE IF outcome = "zero" THEN 0 ELSE NA

\* a failed download ends the run: the upload is not started
runDownloadTest_stopOnFailure(r, outcome) ==
    /\ phase[r] = "download"
    /\ downloadedBytes' = bytesRead(r, outcome)
    /\ IF outcome = "ok"
       THEN /\ phase' = [phase EXCEPT ![r] = "upload"]
            /\ results' = [results EXCEPT !.download = Measured(r)]
            /\ dom' = [dom EXCEPT !.download = 100 * Measured(r),
                                  !.downloadStatus = "Complete",
                                  !.uploadStatus = "Testing Upload..."]
       ELSE /\ phase' = [phase EXCEPT ![r] = "aborted"]
            /\ dom' = [dom EXCEPT !.downloadStatus =
                                      IF outcome = "zero" THEN "Failed: Zero bytes received."
                                      ELSE "Failed"]
            /\ UNCHANGED results
    /\ UNCHANGED <<serverVars, page, disabled, shareUrl, history, curRun, sess, pendingSaves,
                   posts, analyzerCalls, probe, sizes>>

\* zero bytes are reported like any other failure
runDownloadTest_plainFailed(r, outcome) ==
    /\ phase[r] = "download"
    /\ phase' = [phase EXCEPT ![r] = "upload"]
    /\ downloadedBytes' = bytesRead(r, outcome)
    /\ IF outcome = "ok"
       THEN /\ results' = [results EXCEPT !.download = Measured(r)]
            /\ dom' = [dom EXCEPT !.download = 100 * Measured(r),
                                  !.downloadStatus = "Complete",
                                  !.uploadStatus = "Testing Upload..."]
       ELSE /\ dom' = [dom EXCEPT !.downloadStatus = "Failed",
                                  !.uploadStatus = "Testing Upload..."]
            /\ UNCHANGED results
    /\ UNCHANGED <<serverVars, page, disabled, shareUrl, history, curRun, sess, pendingSaves,
                   posts, analyzerCalls, probe, sizes>>

\* runDownloadTest from its fetch on, up to the first await of runUploadTest
runDownloadTest(r, outcome) ==
    /\ phase[r] = "download"
    /\ phase' = [phase EXCEPT ![r] = "upload"]
    /\ downloadedBytes' = bytesRead(r, outcome)
    /\ IF outcome = "ok"
       THEN /\ results' = [results EXCEPT !.download = Measured(r)]
            /\ dom' = [dom EXCEPT !.download = 100 * Measured(r),
                                  !.downloadStatus = "Complete",
                                  !.uploadStatus = "Testing Upload..."]
       ELSE /\ dom' = [dom EXCEPT !.downloadStatus =
                                      IF outcome = "zero" THEN "Failed: Zero bytes received."
                                      ELSE "Failed",
                                  !.uploadStatus = "Testing Upload..."]
            /\ UNCHANGED results
    /\ UNCHANGED <<serverVars, page, disabled, shareUrl, history, curRun, sess, pendingSaves,
                   posts, analyzerCalls, probe, sizes>>

\* runWebRTCTest up to the start of the signaling chain
runWebRTCTest == [NoSession EXCEPT !.sig = "createOffer", !.dc = "connecting"]

\* runUploadTest from its fetch on, after which runAllTests calls
\* runWebRTCTest and returns
runUploadTest(r, ok) ==
    /\ phase[r] = "upload"
    /\ phase' = [phase EXCEPT ![r] = "webrtc"]
    /\ IF ok
       THEN /\ results' = [results EXCEPT !.upload = Measured(r)]
            /\ dom' = [dom EXCEPT !.upload = 100 * Measured(r),
                                  !.uploadStatus = "Complete",
                                  !.jitterStatus = "Starting WebRTC connection..."]
       ELSE /\ dom' = [dom EXCEPT !.uploadStatus = "Failed",
                                  !.jitterStatus = "Starting WebRTC connection..."]
            /\ UNCHANGED results
    /\ sess' = [sess EXCEPT ![r] = runWebRTCTest]
    /\ UNCHANGED <<serverVars, page, disabled, shareUrl, history, curRun, pendingSaves,
                   posts, analyzerCalls, probe, downloadedBytes, sizes>>

\* ------------------------------------------------- Real-Time Exchange Session
\* the steps of the signaling promise chain, in order; sig names the step
\* that is pending
SignalingSteps == <<"createOffer", "setLocalDescription", "gathering", "fetch",
                    "json", "setRemoteDescription">>

StepIndex(step) == CHOOSE k \in DOMAIN SignalingSteps : SignalingSteps[k] = step

\* the steps that can reject; waiting for ICE gathering only resolves
Rejecting == {"createOffer", "setLocalDescription", "fetch", "json", "setRemoteDescription"}

\* the .catch only sets the status
signalingError_statusOnly(r) ==
    /\ sess[r].sig \in Rejecting
    /\ sess' = [sess EXCEPT ![r].sig = "failed"]
    /\ dom' = [dom EXCEPT !.jitterStatus = "WebRTC setup failed."]
    /\ UNCHANGED <<serverVars, page, disabled, results, history, curRun, phase, analyzerCalls,
                   probe, shareUrl, pendingSaves, posts, downloadedBytes, sizes>>

\* the pending step rejects: .catch sets the status and calls finalizeTest
signalingError(r) ==
    /\ sess[r].sig \in Rejecting
    /\ sess' = [sess EXCEPT ![r].sig = "failed"]
    /\ dom' = [dom EXCEPT !.jitterStatus = "WebRTC setup failed."]
    /\ finalizeTest(r, dom')
    /\ UNCHANGED <<serverVars, page, disabled, results, history, curRun, phase, analyzerCalls,
                   probe, downloadedBytes, sizes>>

\* the pending step resolves and the next one starts
signalingStep(r) ==
    /\ sess[r].sig \in {"createOffer", "setLocalDescription", "gathering", "fetch", "json"}
    /\ sess' = [sess EXCEPT ![r].sig = SignalingSteps[StepIndex(@) + 1]]
    /\ UNCHANGED <<serverVars, page, disabled, results, dom, shareUrl, history, curRun, phase,
                   pendingSaves, posts, analyzerCalls, probe, downloadedBytes, sizes>>

\* the chain resolves: the answer has been applied
signalingAnswer(r) ==
    /\ sess[r].sig = "setRemoteDescription"
    /\ sess' = [sess EXCEPT ![r].sig = "answered"]
    /\ UNCHANGED <<serverVars, page, disabled, results, dom, shareUrl, history, curRun, phase,
                   pendingSaves, posts, analyzerCalls, probe, downloadedBytes, sizes>>

\* dc.onopen: setInterval(sendPacket, PACKET_INTERVAL)
dcOnOpen(r) ==
    /\ sess[r].sig = "answered"
    /\ sess[r].dc = "connecting"
    /\ ~sess[r].pcClosed
    /\ sess' = [sess EXCEPT ![r].dc = "open",
                            ![r].elapsed = 0,
                            ![r].intervalId = TRUE,
                            ![r].nextDue = PACKET_INTERVAL]
    /\ dom' = [dom EXCEPT !.jitterStatus = "Connection established. Sending packets..."]
    /\ UNCHANGED <<serverVars, page, disabled, results, shareUrl, history, curRun, phase,
                   pendingSaves, posts, analyzerCalls, probe, downloadedBytes, sizes>>

\* the delay sendPacket hands to setTimeout; a negative delay counts as 0
\* (t is Date.now() - startTestTime)
graceDelay(t) ==
    t - (NUM_PACKETS * PACKET_INTERVAL + MAX_WAIT_BUFFER)

\* a packet is sent without being counted
sendPacket_uncounted(r) ==
    LET c == sess[r] IN
    /\ c.intervalId
    /\ c.elapsed >= c.nextDue
    /\ IF c.packetCounter >= NUM_PACKETS
       THEN /\ sess' = [sess EXCEPT ![r].intervalId = FALSE,
                                    ![r].timeoutPending = TRUE,
                                    ![r].timeoutDue =
                                        c.elapsed + Max(0, graceDelay(c.elapsed))]
            /\ UNCHANGED dom
       ELSE IF c.dc = "open"
       THEN /\ sess' = [sess EXCEPT ![r].inflight =
                                        @ \cup {[id |-> c.packetCounter, sendTime |-> c.elapsed]},
                                    ![r].nextDue = c.elapsed + PACKET_INTERVAL]
            /\ dom' = [dom EXCEPT !.jitterStatus = "Connection established. Sending packets...n/N"]
       ELSE \* dc.send throws InvalidStateError; the counter is not advanced
            /\ sess' = [sess EXCEPT ![r].nextDue = c.elapsed + PACKET_INTERVAL]
            /\ UNCHANGED dom
    /\ UNCHANGED <<serverVars, page, disabled, results, shareUrl, history, curRun, phase,
                   pendingSaves, posts, analyzerCalls, probe, downloadedBytes, sizes>>

\* sendPacket, run by the interval timer
sendPacket(r) ==
    LET c == sess[r] IN
    /\ c.intervalId
    /\ c.elapsed >= c.nextDue
    /\ IF c.packetCounter >= NUM_PACKETS
       THEN /\ sess' = [sess EXCEPT ![r].intervalId = FALSE,
                                    ![r].timeoutPending = TRUE,
                                    ![r].timeoutDue =
                                        c.elapsed + Max(0, graceDelay(c.elapsed))]
            /\ UNCHANGED dom
       ELSE IF c.dc = "open"
       THEN /\ sess' = [sess EXCEPT ![r].inflight =
                                        @ \cup {[id |-> c.packetCounter, sendTime |-> c.elapsed]},
                                    ![r].packetCounter = @ + 1,
                                    ![r].nextDue = c.elapsed + PACKET_INTERVAL]
            /\ dom' = [dom EXCEPT !.jitterStatus = "Connection established. Sending packets...n/N"]
       ELSE \* dc.send throws InvalidStateError; the counter is not advanced
            /\ sess' = [sess EXCEPT ![r].nextDue = c.elapsed + PACKET_INTERVAL]
            /\ UNCHANGED dom
    /\ UNCHANGED <<serverVars, page, disabled, results, shareUrl, history, curRun, phase,
                   pendingSaves, posts, analyzerCalls, probe, downloadedBytes, sizes>>

\* the completion test of dc.onmessage
testComplete(receivedCounter, packetCounter, t) ==
    \/ receivedCounter >= NUM_PACKETS
    \/ /\ packetCounter >= NUM_PACKETS
       /\ t > NUM_PACKETS * PACKET_INTERVAL + MAX_WAIT_BUFFER

\* the sample of an echo is recorded twice
dcOnMessage_twice(r, p) ==
    LET c    == sess[r]
        rtt  == c.elapsed - p.sendTime
        rtts == Append(Append(c.receivedTimestamps, rtt), rtt)
    IN
    /\ c.dc = "open"
    /\ p \in c.inflight
    /\ IF testComplete(c.receivedCounter + 1, c.packetCounter, c.elapsed)
       THEN /\ sess' = [sess EXCEPT ![r].inflight = @ \ {p},
                                    ![r].receivedCounter = @ + 1,
                                    ![r].receivedTimestamps = rtts,
                                    ![r].intervalId = FALSE,
                                    ![r].dc = "closing"]
            /\ calculateJitterLoss(r, rtts, c.packetCounter)
       ELSE /\ sess' = [sess EXCEPT ![r].inflight = @ \ {p},
                                    ![r].receivedCounter = @ + 1,
                                    ![r].receivedTimestamps = rtts]
            /\ UNCHANGED <<results, dom, shareUrl, pendingSaves, posts, analyzerCalls>>
    /\ UNCHANGED <<serverVars, page, disabled, history, curRun, phase, probe, downloadedBytes, sizes>>

\* dc.onmessage for the echo of packet p
dcOnMessage(r, p) ==
    LET c    == sess[r]
        rtt  == c.elapsed - p.sendTime
        rtts == Append(c.receivedTimestamps, rtt)
    IN
    /\ c.dc = "open"
    /\ p \in c.inflight
    /\ IF testComplete(c.receivedCounter + 1, c.packetCounter, c.elapsed)
       THEN /\ sess' = [sess EXCEPT ![r].inflight = @ \ {p},
                                    ![r].receivedCounter = @ + 1,
                                    ![r].receivedTimestamps = rtts,
                                    ![r].intervalId = FALSE,
                                    ![r].dc = "closing"]
            /\ calculateJitterLoss(r, rtts, c.packetCounter)
       ELSE /\ sess' = [sess EXCEPT ![r].inflight = @ \ {p},
                                    ![r].receivedCounter = @ + 1,
                                    ![r].receivedTimestamps = rtts]
            /\ UNCHANGED <<results, dom, shareUrl, pendingSaves, posts, analyzerCalls>>
    /\ UNCHANGED <<serverVars, page, disabled, history, curRun, phase, probe, downloadedBytes, sizes>>

\* the callback of sendPacket's setTimeout
graceTimeout(r) ==
    LET c == sess[r] IN
    /\ c.timeoutPending
    /\ c.elapsed >= c.timeoutDue
    /\ sess' = [sess EXCEPT ![r].timeoutPending = FALSE,
                            ![r].intervalId = FALSE,
                            ![r].dc = IF @ = "open" THEN "closing" ELSE @]
    /\ calculateJitterLoss(r, c.receivedTimestamps, c.packetCounter)
    /\ UNCHANGED <<serverVars, page, disabled, history, curRun, phase, probe, downloadedBytes, sizes>>

\* dc.onclose: the close event, after dc.close() or when the channel drops
dcOnClose(r) ==
    LET c == sess[r] IN
    /\ ~c.pcClosed
    /\ \/ c.dc \in {"open", "closing"}
       \/ c.dc = "connecting" /\ c.sig = "answered"
    /\ sess' = [sess EXCEPT ![r].dc = "closed",
                            ![r].intervalId = FALSE,
                            ![r].pcClosed = TRUE]
    /\ dom' = IF c.packetCounter < NUM_PACKETS
              THEN [dom EXCEPT !.jitterStatus = "WebRTC Disconnected before completion."]
              ELSE dom
    /\ finalizeTest(r, dom')
    /\ UNCHANGED <<serverVars, page, disabled, results, history, curRun, phase, analyzerCalls,
                   probe, downloadedBytes, sizes>>

\* pc.oniceconnectionstatechange with state failed or disconnected
onIceConnectionStateChange(r) ==
    LET c == sess[r] IN
    /\ c.sig = "answered"
    /\ ~c.pcClosed
    /\ c.iceEvents < MaxIceEvents
    /\ sess' = [sess EXCEPT ![r].intervalId = FALSE,
                            ![r].iceEvents = @ + 1]
    /\ dom' = [dom EXCEPT !.jitterStatus = "WebRTC Failed or Disconnected."]
    /\ finalizeTest(r, dom')
    /\ UNCHANGED <<serverVars, page, disabled, results, history, curRun, phase, analyzerCalls,
                   probe, downloadedBytes, sizes>>

\* the clock of session r; it is only read while the channel is open or the
\* grace timer is armed.  A due timer callback runs at most MaxLate late.
Tick(r) ==
    /\ sess[r].elapsed < MaxTime
    /\ sess[r].dc = "open" \/ sess[r].timeoutPending
    /\ ~(sess[r].intervalId /\ sess[r].elapsed >= sess[r].nextDue + MaxLate)
    /\ ~(sess[r].timeoutPending /\ sess[r].elapsed >= sess[r].timeoutDue + MaxLate)
    /\ sess' = [sess EXCEPT ![r].elapsed = @ + 1]
    /\ UNCHANGED <<serverVars, page, disabled, results, dom, shareUrl, history, curRun, phase,
                   pendingSaves, posts, analyzerCalls, probe, downloadedBytes, sizes>>

\* the handlers of the runs in R, ICE state changes aside
ClientStep(R) ==
    \/ \E r \in R : runAllTests(r)
    \/ \E r \in R : \E p \in LoopOutcomes(r) : runLatencyTest(r, p)
    \/ \E r \in R, outcome \in DownloadOutcomes : runDownloadTest(r, outcome)
    \/ \E r \in R, ok \in BOOLEAN : runUploadTest(r, ok)
    \/ \E r \in R : signalingError(r)
    \/ \E r \in R : signalingStep(r)
    \/ \E r \in R : signalingAnswer(r)
    \/ \E r \in R : dcOnOpen(r)
    \/ \E r \in R : sendPacket(r)
    \/ \E r \in R : \E p \in sess[r].inflight : dcOnMessage(r, p)
    \/ \E r \in R : graceTimeout(r)
    \/ \E r \in R : dcOnClose(r)
    \/ \E s \in BagToSet(pendingSaves), ok \in BOOLEAN : saveResultSettled(s, ok)
    \/ \E r \in R : Tick(r)

\* ------------------------------------------------- loading a shared result
\* window.onload on a page whose start button is left enabled
windowOnload_enabled ==
    /\ ~page.loaded
    /\ page' = [page EXCEPT !.loaded = TRUE,
                            !.fetch = IF TruthyParam(getResultId(page.search))
                                      THEN "pending" ELSE "none"]
    /\ UNCHANGED <<serverVars, disabled, results, dom, shareUrl, history, curRun, phase, sess,
                   pendingSaves, posts, analyzerCalls, probe, downloadedBytes, sizes>>

\* window.onload: the listeners are attached, the history is rendered and
\* loadResultFromUrl runs up to its fetch
windowOnload ==
    /\ ~page.loaded
    /\ IF TruthyParam(getResultId(page.search))
       THEN /\ disabled' = TRUE
            /\ page' = [page EXCEPT !.loaded = TRUE, !.fetch = "pending"]
       ELSE /\ page' = [page EXCEPT !.loaded = TRUE]
            /\ UNCHANGED disabled
    /\ UNCHANGED <<serverVars, results, dom, shareUrl, history, curRun, phase, sess,
                   pendingSaves, posts, analyzerCalls, probe, downloadedBytes, sizes>>

\* the fetch of /results/{id} settles: displaySharedResult on a record, the
\* catch (console.error) on a failure or a non-success status; data is the
\* record the server answers with, in hundredths
loadResultFromUrl(ok) ==
    /\ page.fetch = "pending"
    /\ IF ok
       THEN /\ LET data == [downloadSpeedMbps |-> 9412, uploadSpeedMbps |-> 4120,
                             latencyMs |-> 1250, jitterMs |-> 25, packetLossPercent |-> 40]
               IN  dom' = [dom EXCEPT !.download = data.downloadSpeedMbps,
                                      !.upload = data.uploadSpeedMbps,
                                      !.latency = data.latencyMs,
                                      !.jitter = data.jitterMs,
                                      !.loss = data.packetLossPercent]
            /\ shareUrl' = "viewing"
            /\ page' = [page EXCEPT !.fetch = "shown"]
       ELSE /\ page' = [page EXCEPT !.fetch = "failed"]
            /\ UNCHANGED <<dom, shareUrl>>
    /\ UNCHANGED <<serverVars, disabled, results, history, curRun, phase, sess,
                   pendingSaves, posts, analyzerCalls, probe, downloadedBytes, sizes>>

\* --------------------------------------- reading the client's size inputs
\* getDownloadSizeMB, as called by runDownloadTest for ?size=
getDownloadSizeMB ==
    /\ sizes.requestedSizeMB = NA
    /\ LET value == validateSize(sizes.download, MAX_SIZE_MB)
       IN  sizes' = [sizes EXCEPT !.download = value, !.requestedSizeMB = parseInt(value).v]
    /\ UNCHANGED <<serverVars, page, disabled, results, dom, shareUrl, history, curRun, phase, sess,
                   pendingSaves, posts, analyzerCalls, probe, downloadedBytes>>

\* getUploadSizeMB and the size of the Blob, as in runUploadTest
getUploadSizeMB ==
    /\ sizes.sizeBytes = NA
    /\ LET value == validateSize(sizes.upload, MAX_SIZE_MB)
       IN  sizes' = [sizes EXCEPT !.upload = value,
                                  !.sizeBytes = parseInt(value).v * 1024 * 1024]
    /\ UNCHANGED <<serverVars, page, disabled, results, dom, shareUrl, history, curRun, phase, sess,
                   pendingSaves, posts, analyzerCalls, probe, downloadedBytes>>

\* the 'change' listeners of the two inputs
onChange(which) ==
    /\ sizes' = [sizes EXCEPT ![which] = validateSize(@, MAX_SIZE_MB)]
    /\ sizes' # sizes
    /\ UNCHANGED <<serverVars, page, disabled, results, dom, shareUrl, history, curRun, phase, sess,
                   pendingSaves, posts, analyzerCalls, probe, downloadedBytes>>

\* ------------------------- the exchange session of static/speedtest.js
static_WAIT_BUFFER == 2  \* grace period after the last send, in clock units

\* saveHistory of static/speedtest.js: the entry is made from the results
\* object, a falsy property is stored as 'N/A'
static_historyItem(by, result) ==
    [run        |-> by,
     latency    |-> IF TruthyQ(result.latency) THEN toFixed2(result.latency) ELSE NA,
     download   |-> IF Truthy(result.download) THEN result.download ELSE NA,
     upload     |-> IF Truthy(result.upload) THEN result.upload ELSE NA,
     jitter     |-> IF TruthyQ(result.jitter) THEN toFixed2(result.jitter) ELSE NA,
     packetLoss |-> IF TruthyQ(result.packetLoss) THEN toFixed2(result.packetLoss) ELSE NA]

static_saveHistory(h, by, result) ==
    LET unshifted == <<static_historyItem(by, result)>> \o h
    IN  IF Len(unshifted) > MAX_HISTORY_ITEMS
        THEN SubSeq(unshifted, 1, MAX_HISTORY_ITEMS)
        ELSE unshifted

\* finalizeTest of static/speedtest.js, with res the results object at the call
static_finalizeTest(r, res) ==
    IF disabled
    THEN /\ history' = IF TruthyQ(res.latency) \/ Truthy(res.download) \/ Truthy(res.upload)
                       THEN static_saveHistory(history, r, res)
                       ELSE history
         /\ disabled' = FALSE
    ELSE UNCHANGED <<history, disabled>>

static_calculateJitterLoss(r, rtts, totalPacketsSent) ==
    LET loss == lossPercent(rtts, totalPacketsSent)
        jit  == averageJitter(rtts)
    IN  /\ results' = [results EXCEPT !.packetLoss = loss, !.jitter = jit]
        /\ dom' = [dom EXCEPT !.loss = toFixed2(loss), !.jitter = toFixed2(jit),
                              !.jitterStatus = "Complete"]
        /\ analyzerCalls' = [analyzerCalls EXCEPT ![r] = @ + 1]
        /\ static_finalizeTest(r, results')

\* sendPacket of static/speedtest.js: once every packet is sent the interval
\* is cleared and nothing else is scheduled
static_sendPacket(r) ==
    LET c == sess[r] IN
    /\ c.intervalId
    /\ c.elapsed >= c.nextDue
    /\ IF c.packetCounter >= NUM_PACKETS
       THEN sess' = [sess EXCEPT ![r].intervalId = FALSE]
       ELSE IF c.dc = "open"
       THEN sess' = [sess EXCEPT ![r].inflight =
                                     @ \cup {[id |-> c.packetCounter, sendTime |-> c.elapsed]},
                                 ![r].packetCounter = @ + 1,
                                 ![r].nextDue = c.elapsed + PACKET_INTERVAL]
       ELSE sess' = [sess EXCEPT ![r].nextDue = c.elapsed + PACKET_INTERVAL]
    /\ UNCHANGED <<serverVars, page, disabled, results, dom, shareUrl, history, curRun, phase,
                   pendingSaves, posts, analyzerCalls, probe, downloadedBytes, sizes>>

\* the completion test of dc.onmessage in static/speedtest.js
static_testComplete(receivedCounter, packetCounter, t) ==
    \/ receivedCounter >= NUM_PACKETS
    \/ /\ packetCounter >= NUM_PACKETS
       /\ t > NUM_PACKETS * PACKET_INTERVAL + static_WAIT_BUFFER

\* dc.onmessage of static/speedtest.js for the echo of packet p
static_dcOnMessage(r, p) ==
    LET c    == sess[r]
        rtt  == c.elapsed - p.sendTime
        rtts == Append(c.receivedTimestamps, rtt)
    IN
    /\ c.dc = "open"
    /\ p \in c.inflight
    /\ IF static_testComplete(c.receivedCounter + 1, c.packetCounter, c.elapsed)
       THEN /\ sess' = [sess EXCEPT ![r].inflight = @ \ {p},
                                    ![r].receivedCounter = @ + 1,
                                    ![r].receivedTimestamps = rtts,
                                    ![r].intervalId = FALSE,
                                    ![r].dc = "closing"]
            /\ static_calculateJitterLoss(r, rtts, c.packetCounter)
       ELSE /\ sess' = [sess EXCEPT ![r].inflight = @ \ {p},
                                    ![r].receivedCounter = @ + 1,
                                    ![r].receivedTimestamps = rtts]
            /\ UNCHANGED <<results, dom, analyzerCalls, history, disabled>>
    /\ UNCHANGED <<serverVars, page, shareUrl, curRun, phase, pendingSaves, posts, probe, downloadedBytes,
                   sizes>>

\* the unreliable channel (maxRetransmits: 0) drops packet p or its echo
echoLost(r, p) ==
    /\ p \in sess[r].inflight
    /\ sess' = [sess EXCEPT ![r].inflight = @ \ {p}]
    /\ UNCHANGED <<serverVars, page, disabled, results, dom, shareUrl, history, curRun, phase,
                   pendingSaves, posts, analyzerCalls, probe, downloadedBytes, sizes>>

\* dc.onclose of static/speedtest.js
static_dcOnClose(r) ==
    LET c == sess[r] IN
    /\ ~c.pcClosed
    /\ \/ c.dc \in {"open", "closing"}
       \/ c.dc = "connecting" /\ c.sig = "answered"
    /\ sess' = [sess EXCEPT ![r].dc = "closed",
                            ![r].intervalId = FALSE,
                            ![r].pcClosed = TRUE]
    /\ dom' = IF c.packetCounter < NUM_PACKETS
              THEN [dom EXCEPT !.jitterStatus = "WebRTC Disconnected before completion."]
              ELSE dom
    /\ static_finalizeTest(r, results)
    /\ UNCHANGED <<serverVars, page, results, shareUrl, curRun, phase, pendingSaves, posts,
                   analyzerCalls, probe, downloadedBytes, sizes>>

\* ------------------------------------ server: the data channel echo
MaxMsgs == 2             \* messages received on one data channel

Channels == {1, 2}       \* data channels the client opens on the connection

\* messages a peer can send: an empty one, a text one (the client's JSON
\* payload), a binary one
Messages == { [data |-> <<>>, isString |-> FALSE],
              [data |-> <<123, 125>>, isString |-> TRUE],
              [data |-> <<7>>, isString |-> FALSE] }

\* received: the messages handed to OnMessage; sends: the dc.Send calls made,
\* with their outcome; sent: the messages put on the channel; logged: the
\* 'Error echoing data' lines
NoChannel == [state |-> "none", received |-> <<>>, sends |-> <<>>, sent |-> <<>>,
              logged |-> 0]

\* pc: the peer connection of the request (none, new once created, connected,
\* closed); handler: the statement webrtcOfferHandler is at; status: the
\* response it wrote; gathering: the ICE gathering state of the connection
NoPeer == [pc |-> "none", dcs |-> [c \in Channels |-> NoChannel],
           handler |-> "idle", status |-> 0, gathering |-> "new"]

\* the statements of webrtcOfferHandler that can fail, in order, and the
\* wait that follows them
HandlerSteps == <<"Decode", "NewPeerConnection", "SetRemoteDescription", "CreateAnswer",
                  "SetLocalDescription", "gatherComplete">>

\* POST /webrtc/offer arrives
webrtcOfferHandler ==
    /\ rtc.handler = "idle"
    /\ rtc' = [rtc EXCEPT !.handler = "Decode"]
    /\ UNCHANGED <<clientVars, maxDownloadSize, downloadChunkSize, dl, storeVars, ul>>

\* one statement of webrtcOfferHandler: it fails (http.Error and return) or
\* succeeds.  NewPeerConnection creates the connection, SetLocalDescription
\* starts its ICE gathering
handlerStep(err) ==
    LET step == rtc.handler
        index == CHOOSE k \in DOMAIN HandlerSteps : HandlerSteps[k] = step
        \* the status written when the statement fails
        errorStatus == IF step \in {"Decode", "SetRemoteDescription"} THEN 400 ELSE 500
    IN
    /\ step \in {"Decode", "NewPeerConnection", "SetRemoteDescription", "CreateAnswer",
                 "SetLocalDescription"}
    /\ rtc' = IF err
              THEN [rtc EXCEPT !.handler = "returned", !.status = errorStatus]
              ELSE [rtc EXCEPT !.handler = HandlerSteps[index + 1],
                               !.pc = IF step = "NewPeerConnection" THEN "new" ELSE @,
                               !.gathering = IF step = "SetLocalDescription"
                                             THEN "gathering" ELSE @]
    /\ UNCHANGED <<clientVars, maxDownloadSize, downloadChunkSize, dl, storeVars, ul>>

\* the ICE gathering of the server's connection completes
gatheringComplete ==
    /\ rtc.gathering = "gathering"
    /\ rtc' = [rtc EXCEPT !.gathering = "complete"]
    /\ UNCHANGED <<clientVars, maxDownloadSize, downloadChunkSize, dl, storeVars, ul>>

\* the answer is written as soon as the local description is set
sendAnswer_noWait ==
    /\ rtc.handler = "gatherComplete"
    /\ rtc' = [rtc EXCEPT !.handler = "returned", !.status = 200]
    /\ UNCHANGED <<clientVars, maxDownloadSize, downloadChunkSize, dl, storeVars, ul>>

\* <-gatherComplete returns and the answer is written
sendAnswer ==
    /\ rtc.handler = "gatherComplete"
    /\ rtc.gathering = "complete"
    /\ rtc' = [rtc EXCEPT !.handler = "returned", !.status = 200]
    /\ UNCHANGED <<clientVars, maxDownloadSize, downloadChunkSize, dl, storeVars, ul>>

\* the two peers connect, after the client has applied the answer
peerConnected ==
    /\ rtc.pc = "new"
    /\ rtc.status = 200
    /\ rtc' = [rtc EXCEPT !.pc = "connected"]
    /\ UNCHANGED <<clientVars, maxDownloadSize, downloadChunkSize, dl, storeVars, ul>>

\* the callback of peerConnection.OnDataChannel: the handlers are registered
OnDataChannel(c) ==
    /\ rtc.pc = "connected"
    /\ rtc.dcs[c].state = "none"
    /\ rtc' = [rtc EXCEPT !.dcs[c].state = "open"]
    /\ UNCHANGED <<clientVars, maxDownloadSize, downloadChunkSize, dl, storeVars, ul>>

\* dc.Send(data): a binary message with these bytes
Send(data) == [data |-> data, isString |-> FALSE]

\* a failed echo closes the data channel
OnMessage_closeOnError(c, msg, err) ==
    /\ rtc.dcs[c].state = "open"
    /\ Len(rtc.dcs[c].received) < MaxMsgs
    /\ rtc' = [rtc EXCEPT !.dcs[c].received = Append(@, msg),
                          !.dcs[c].sends = Append(@, [data |-> msg.data, err |-> err]),
                          !.dcs[c].sent = IF err THEN @ ELSE Append(@, Send(msg.data)),
                          !.dcs[c].logged = IF err THEN @ + 1 ELSE @,
                          !.dcs[c].state = IF err THEN "closed" ELSE @]
    /\ UNCHANGED <<clientVars, maxDownloadSize, downloadChunkSize, dl, storeVars, ul>>

\* the callback of dc.OnMessage for message msg on channel c; err is the
\* outcome of dc.Send
OnMessage(c, msg, err) ==
    /\ rtc.dcs[c].state = "open"
    /\ Len(rtc.dcs[c].received) < MaxMsgs
    /\ rtc' = [rtc EXCEPT !.dcs[c].received = Append(@, msg),
                          !.dcs[c].sends = Append(@, [data |-> msg.data, err |-> err]),
                          !.dcs[c].sent = IF err THEN @ ELSE Append(@, Send(msg.data)),
                          !.dcs[c].logged = IF err THEN @ + 1 ELSE @]
    /\ UNCHANGED <<clientVars, maxDownloadSize, downloadChunkSize, dl, storeVars, ul>>

\* the callback of dc.OnClose: peerConnection.Close(), which closes every
\* channel of the connection
OnClose(c) ==
    /\ rtc.dcs[c].state = "open"
    /\ rtc' = [rtc EXCEPT !.pc = "closed",
                          !.dcs = [d \in Channels |->
                                      IF rtc.dcs[d].state = "open"
                                      THEN [rtc.dcs[d] EXCEPT !.state = "closed"]
                                      ELSE rtc.dcs[d]]]
    /\ UNCHANGED <<clientVars, maxDownloadSize, downloadChunkSize, dl, storeVars, ul>>

\* ------------------------------------- server: the result store (Badger)
MaxSaves == 3            \* records the store is filled with

null == -2               \* a JSON key that is missing or null
ZeroTime == 0            \* time.Time{}
ServerTimes == {100, 101}        \* values of time.Now() at a save

\* the struct read from a JSON object: a missing or null key leaves the
\* field at its zero value, unknown keys are ignored
Decode(obj) ==
    [Timestamp         |-> IF obj.timestamp = null THEN ZeroTime ELSE obj.timestamp,
     DownloadSpeedMbps |-> IF obj.downloadSpeedMbps = null THEN 0 ELSE obj.downloadSpeedMbps,
     UploadSpeedMbps   |-> IF obj.uploadSpeedMbps = null THEN 0 ELSE obj.uploadSpeedMbps,
     LatencyMs         |-> IF obj.latencyMs = null THEN 0 ELSE obj.latencyMs,
     JitterMs          |-> IF obj.jitterMs = null THEN 0 ELSE obj.jitterMs,
     PacketLossPercent |-> IF obj.packetLossPercent = null THEN 0 ELSE obj.packetLossPercent]

\* json.Marshal / Encode of a TestResult: every field under its json tag
Marshal(result) ==
    [timestamp         |-> result.Timestamp,
     downloadSpeedMbps |-> result.DownloadSpeedMbps,
     uploadSpeedMbps   |-> result.UploadSpeedMbps,
     latencyMs         |-> result.LatencyMs,
     jitterMs          |-> result.JitterMs,
     packetLossPercent |-> result.PacketLossPercent]

\* json.Unmarshal of a stored document into a zero TestResult
Unmarshal(data) == Decode(data)

NoObject == [timestamp |-> null, downloadSpeedMbps |-> null, uploadSpeedMbps |-> null,
             latencyMs |-> null, jitterMs |-> null, packetLossPercent |-> null]

maxRequestSize == 1024 * 1024

\* request bodies of /save-result, as the decoder sees them: the first JSON
\* value of the body (kind "json" with its object, in hundredths, or "text"
\* for bytes that are no JSON object), the offset valueEnd at which that
\* value ends, and the length of the whole body
TextBody == [kind |-> "text", obj |-> NoObject, valueEnd |-> 9, length |-> 9]

SaveBodies ==
    { [kind |-> "json", valueEnd |-> 120, length |-> 120,
       obj |-> [timestamp |-> null, downloadSpeedMbps |-> 9412,
                uploadSpeedMbps |-> 4120, latencyMs |-> 1250,
                jitterMs |-> 25, packetLossPercent |-> 40]],
      [kind |-> "json", valueEnd |-> 100, length |-> 100,
       obj |-> [timestamp |-> 7, downloadSpeedMbps |-> null,
                uploadSpeedMbps |-> 0, latencyMs |-> 300,
                jitterMs |-> 0, packetLossPercent |-> 10000]],
      TextBody,
      [kind |-> "json", valueEnd |-> 2 * maxRequestSize, length |-> 2 * maxRequestSize,
       obj |-> [timestamp |-> null, downloadSpeedMbps |-> 1,
                uploadSpeedMbps |-> 1, latencyMs |-> 1,
                jitterMs |-> 1, packetLossPercent |-> 1]],
      [kind |-> "json", valueEnd |-> 90, length |-> 2 * maxRequestSize,
       obj |-> [timestamp |-> null, downloadSpeedMbps |-> 5000,
                uploadSpeedMbps |-> 0, latencyMs |-> 0,
                jitterMs |-> 0, packetLossPercent |-> 0]] }

\* json.NewDecoder(r.Body).Decode over http.MaxBytesReader: the decoder reads
\* until its first value is complete and no further; the reader fails once
\* more than maxRequestSize bytes have been asked of it
decodes(body) == body.kind = "json" /\ body.valueEnd <= maxRequestSize

\* ids of /results/{id}: 0 is the empty id, MaxSaves + 2 one never generated
LoadIds == 0..(MaxSaves + 2)

NoResp == [op |-> "none", method |-> "", req |-> TextBody, status |-> 0, id |-> 0,
           body |-> NoObject, fault |-> FALSE]

InitStore ==
    /\ store = <<>>
    /\ accepted = <<>>
    /\ resp = NoResp

\* the record is stored as decoded, with the timestamp of the request body
Save_clientTime(result, t) == Marshal(result)

\* BadgerStore.Save: the document stored under the new id
Save(result, t) == Marshal([result EXCEPT !.Timestamp = t])

\* the id handed out last is handed out again
uuid_New_reused == IF Len(store) = 0 THEN 1 ELSE Len(store)

\* uuid.New(): an id no earlier call returned
uuid_New == Len(store) + 1

\* txn.Set(id, data)
Set(db, id, data) == [i \in DOMAIN db \cup {id} |-> IF i = id THEN data ELSE db[i]]

\* the most recently stored document, whatever the id
Load_latest(id) == Unmarshal(store[Len(store)])

\* BadgerStore.Load of an id that is stored
Load(id) == Unmarshal(store[id])

\* POST /save-result; t is time.Now(), fault a failure of db.Update
saveResultHandler(method, body, t, fault) ==
    LET r == [NoResp EXCEPT !.op = "save", !.method = method, !.req = body]
    IN  /\ Len(store) < MaxSaves
        /\ IF method # "POST"
           THEN /\ resp' = [r EXCEPT !.status = 405]
                /\ UNCHANGED <<store, accepted>>
           ELSE IF ~decodes(body)
           THEN /\ resp' = [r EXCEPT !.status = 400]
                /\ UNCHANGED <<store, accepted>>
           ELSE IF fault
           THEN /\ resp' = [r EXCEPT !.status = 500, !.fault = TRUE]
                /\ UNCHANGED <<store, accepted>>
           ELSE LET id == uuid_New
                IN  /\ store' = Set(store, id, Save(Decode(body.obj), t))
                    /\ accepted' = Set(accepted, id, body.obj)
                    /\ resp' = [r EXCEPT !.status = 200, !.id = id]
        /\ UNCHANGED <<clientVars, maxDownloadSize, downloadChunkSize, dl, rtc, ul>>

\* a missing key answered like any other store error
loadResultHandler_notFound500(method, id, fault) ==
    LET r == [NoResp EXCEPT !.op = "load", !.method = method, !.id = id]
    IN  /\ resp' =
               IF method # "GET" THEN [r EXCEPT !.status = 405]
               ELSE IF id = 0 THEN [r EXCEPT !.status = 400]
               ELSE IF fault THEN [r EXCEPT !.status = 500, !.fault = TRUE]
               ELSE IF id \notin DOMAIN store THEN [r EXCEPT !.status = 500]
               ELSE [r EXCEPT !.status = 200, !.body = Marshal(Load(id))]
        /\ UNCHANGED <<clientVars, maxDownloadSize, downloadChunkSize, dl, store, accepted, rtc, ul>>

\* GET /results/{id}; fault is a failure of db.View other than ErrKeyNotFound
loadResultHandler(method, id, fault) ==
    LET r == [NoResp EXCEPT !.op = "load", !.method = method, !.id = id]
    IN  /\ resp' =
               IF method # "GET" THEN [r EXCEPT !.status = 405]
               ELSE IF id = 0 THEN [r EXCEPT !.status = 400]
               ELSE IF fault THEN [r EXCEPT !.status = 500, !.fault = TRUE]
               ELSE IF id \notin DOMAIN store THEN [r EXCEPT !.status = 404]
               ELSE [r EXCEPT !.status = 200, !.body = Marshal(Load(id))]
        /\ UNCHANGED <<clientVars, maxDownloadSize, downloadChunkSize, dl, store, accepted, rtc, ul>>

\* ----------------------------------------------------- server: POST /upload
MaxBodyChunks == 3       \* reads io.Copy needs to drain a request body

\* body: the sizes of the pieces r.Body hands out before io.EOF; read: the
\* pieces io.Copy has read; failed: a Read returned an error other than io.EOF
NoUpload == [pc |-> "idle", method |-> "POST", body |-> <<>>, read |-> 0,
             uploadedBytes |-> 0, failed |-> FALSE, status |-> 0]

\* uploadHandler up to io.Copy
uploadHandler ==
    /\ ul.pc = "request"
    /\ ul' = IF ul.method # "POST"
             THEN [ul EXCEPT !.pc = "done", !.status = 405]
             ELSE [ul EXCEPT !.pc = "copy"]
    /\ UNCHANGED <<clientVars, maxDownloadSize, downloadChunkSize, dl, storeVars, rtc>>

\* io.Copy: a Read hands out the next piece, which io.Discard swallows
copyRead ==
    /\ ul.pc = "copy"
    /\ ul.read < Len(ul.body)
    /\ ul' = [ul EXCEPT !.read = @ + 1, !.uploadedBytes = @ + ul.body[ul.read + 1]]
    /\ UNCHANGED <<clientVars, maxDownloadSize, downloadChunkSize, dl, storeVars, rtc>>

\* io.Copy: a Read returns io.EOF, the handler answers 200
copyEOF ==
    /\ ul.pc = "copy"
    /\ ul.read = Len(ul.body)
    /\ ul' = [ul EXCEPT !.pc = "done", !.status = 200]
    /\ UNCHANGED <<clientVars, maxDownloadSize, downloadChunkSize, dl, storeVars, rtc>>

\* a failed Read is taken for the end of the body
copyError_ok ==
    /\ ul.pc = "copy"
    /\ ul' = [ul EXCEPT !.pc = "done", !.failed = TRUE, !.status = 200]
    /\ UNCHANGED <<clientVars, maxDownloadSize, downloadChunkSize, dl, storeVars, rtc>>

\* io.Copy: a Read fails before io.EOF, the handler logs and answers 500
copyError ==
    /\ ul.pc = "copy"
    /\ ul' = [ul EXCEPT !.pc = "done", !.failed = TRUE, !.status = 500]
    /\ UNCHANGED <<clientVars, maxDownloadSize, downloadChunkSize, dl, storeVars, rtc>>

\* --------------------------------------------------- server: GET /download
globalMaxDownloadSizeMB == 1024
MiB == 1024 * 1024

\* the size query parameter: k = "int" is a decimal that fits int64 (value v),
\* "range" a decimal outside int64 (v its sign), "empty" a missing parameter,
\* "text" a non-numeric one
SizeParams ==
    [k : {"int"}, v : {-5, 0, 1, 3, 10, 50, 1024, 5000}]
        \cup [k : {"range"}, v : {-1, 1}]
        \cup [k : {"empty", "text"}, v : {0}]

MaxSizeFlags == {0, 1, 5, 10, 100, 1024, 2000}       \* values of -maxsize
ChunkSizeFlags == {-1, 0, MiB, 3 * MiB, 64 * MiB - 1}      \* values of -chunksize

\* main: *maxDownloadSize is capped at globalMaxDownloadSizeMB
mainValidation(flag) ==
    IF flag > globalMaxDownloadSizeMB THEN globalMaxDownloadSizeMB ELSE flag

\* strconv.ParseInt(sizeParam, 10, 64): a syntax or range error leaves a value
\* the handler never reads
ParseInt(p) ==
    IF p.k = "int" THEN [val |-> p.v, err |-> FALSE] ELSE [val |-> 0, err |-> TRUE]

\* the handler without the clamp to *maxDownloadSize
totalSizeOf_noFlagCap(sizeParam, maxSize) ==
    LET parsed == ParseInt(sizeParam)
        req0   == IF parsed.err \/ parsed.val <= 0 THEN 10 ELSE parsed.val
        req1   == IF req0 > globalMaxDownloadSizeMB THEN globalMaxDownloadSizeMB ELSE req0
        total  == req1 * 1024 * 1024
    IN  IF total < 1024 * 1024 THEN 1024 * 1024 ELSE total

\* the handler with a default of 1 MB
totalSizeOf_default1(sizeParam, maxSize) ==
    LET parsed == ParseInt(sizeParam)
        req0   == IF parsed.err \/ parsed.val <= 0 THEN 1 ELSE parsed.val
        req1   == IF req0 > globalMaxDownloadSizeMB THEN globalMaxDownloadSizeMB ELSE req0
        req2   == IF req1 > maxSize THEN maxSize ELSE req1
        total  == req2 * 1024 * 1024
    IN  IF total < 1024 * 1024 THEN 1024 * 1024 ELSE total

\* downloadHandler steps 1 and 2: the size parameter to totalSize
totalSizeOf(sizeParam, maxSize) ==
    LET parsed == ParseInt(sizeParam)
        req0   == IF parsed.err \/ parsed.val <= 0 THEN 10 ELSE parsed.val
        req1   == IF req0 > globalMaxDownloadSizeMB THEN globalMaxDownloadSizeMB ELSE req0
        req2   == IF req1 > maxSize THEN maxSize ELSE req1
        total  == req2 * 1024 * 1024
    IN  IF total < 1024 * 1024 THEN 1024 * 1024 ELSE total

\* downloadHandler step 4: the chunk size, with its fallback
chunkSizeOf(flag) == IF flag <= 0 THEN 1024 * 1024 ELSE flag

\* flusher: the ResponseWriter is an http.Flusher; writes and flushes count
\* the successful w.Write and the Flush calls; writeFailed: a w.Write returned
\* an error
NoDownload == [pc |-> "idle", sizeParam |-> [k |-> "empty", v |-> 0],
               totalSize |-> 0, contentLength |-> NA, chunkSize |-> 0,
               sentBytes |-> 0, writes |-> 0, flushes |-> 0,
               flusher |-> TRUE, writeFailed |-> FALSE]

InitServer ==
    /\ maxDownloadSize = mainValidation(100)
    /\ downloadChunkSize = 1024 * 1024
    /\ dl = NoDownload
    /\ InitStore
    /\ rtc = NoPeer
    /\ ul = NoUpload

\* a request for /download reaches a server started with some flags
InitDownload ==
    /\ InitClient
    /\ \E flag \in MaxSizeFlags : maxDownloadSize = mainValidation(flag)
    /\ downloadChunkSize \in ChunkSizeFlags
    /\ \E p \in SizeParams, f \in BOOLEAN :
           dl = [NoDownload EXCEPT !.pc = "request", !.sizeParam = p, !.flusher = f]
    /\ InitStore
    /\ rtc = NoPeer
    /\ ul = NoUpload

\* downloadHandler up to the streaming loop
downloadHandler ==
    /\ dl.pc = "request"
    /\ LET totalSize == totalSizeOf(dl.sizeParam, maxDownloadSize)
       IN  dl' = [dl EXCEPT !.pc = "stream",
                            !.totalSize = totalSize,
                            !.contentLength = totalSize,
                            !.chunkSize = chunkSizeOf(downloadChunkSize)]
    /\ UNCHANGED <<clientVars, maxDownloadSize, downloadChunkSize, storeVars, rtc, ul>>

\* every write carries a full chunk, the last one included
writeChunk_fullChunks ==
    /\ dl.pc = "stream"
    /\ LET sentBytes == dl.sentBytes + dl.chunkSize
       IN  dl' = [dl EXCEPT !.sentBytes = sentBytes,
                            !.writes = @ + 1,
                            !.pc = "flush"]
    /\ UNCHANGED <<clientVars, maxDownloadSize, downloadChunkSize, storeVars, rtc, ul>>

\* one iteration of the loop, first half: w.Write succeeds
writeChunk ==
    /\ dl.pc = "stream"
    /\ LET bytesToWrite == IF dl.totalSize - dl.sentBytes < dl.chunkSize
                           THEN dl.totalSize - dl.sentBytes ELSE dl.chunkSize
           sentBytes    == dl.sentBytes + bytesToWrite
       IN  dl' = [dl EXCEPT !.sentBytes = sentBytes,
                            !.writes = @ + 1,
                            !.pc = "flush"]
    /\ UNCHANGED <<clientVars, maxDownloadSize, downloadChunkSize, storeVars, rtc, ul>>

\* the response is flushed once, when the loop is over
Flush_whenDone ==
    /\ dl.pc = "flush"
    /\ dl' = [dl EXCEPT !.flushes = IF dl.flusher /\ dl.sentBytes >= dl.totalSize
                                    THEN @ + 1 ELSE @,
                        !.pc = IF dl.sentBytes < dl.totalSize THEN "stream" ELSE "done"]
    /\ UNCHANGED <<clientVars, maxDownloadSize, downloadChunkSize, storeVars, rtc, ul>>

\* one iteration of the loop, second half: Flush if w is an http.Flusher,
\* then the loop condition
Flush ==
    /\ dl.pc = "flush"
    /\ dl' = [dl EXCEPT !.flushes = IF dl.flusher THEN @ + 1 ELSE @,
                        !.pc = IF dl.sentBytes < dl.totalSize THEN "stream" ELSE "done"]
    /\ UNCHANGED <<clientVars, maxDownloadSize, downloadChunkSize, storeVars, rtc, ul>>

\* the write error is logged and the iteration goes on
writeError_continue ==
    /\ dl.pc = "stream"
    /\ LET bytesToWrite == IF dl.totalSize - dl.sentBytes < dl.chunkSize
                           THEN dl.totalSize - dl.sentBytes ELSE dl.chunkSize
       IN  dl' = [dl EXCEPT !.writeFailed = TRUE,
                            !.sentBytes = @ + bytesToWrite,
                            !.pc = "flush"]
    /\ UNCHANGED <<clientVars, maxDownloadSize, downloadChunkSize, storeVars, rtc, ul>>

\* one iteration of the loop: w.Write fails, the handler logs and returns
writeError ==
    /\ dl.pc = "stream"
    /\ dl' = [dl EXCEPT !.writeFailed = TRUE, !.pc = "aborted"]
    /\ UNCHANGED <<clientVars, maxDownloadSize, downloadChunkSize, storeVars, rtc, ul>>

\* ------------------- the download handler kept in static/speedtest.js
static_downloadChunkSize == 4096

\* an int64 n is held as [hi, lo] with n = hi * 2^43 + lo and lo small, so
\* that n * 2^20 is hi * 2^63 + lo * 2^20
\* int64 values a size parameter parses to: around 0, around 2^43 and 2^44,
\* around -2^43, and the two ends of int64
WideInts ==
    LET lows == {-1, 0, 1, 50, 101}
    IN  [hi : {-1, 0, 1, 2}, lo : lows]
            \cup [hi : {-MiB}, lo : {l \in lows : l >= 0}]
            \cup [hi : {MiB}, lo : {l \in lows : l < 0}]

\* a > c and a < c for an int64 a and a small c
WideGt(a, c) == a.hi > 0 \/ (a.hi = 0 /\ a.lo > c)
WideLt(a, c) == a.hi < 0 \/ (a.hi = 0 /\ a.lo < c)

\* requestedSizeMB * 1024 * 1024 in int64, in units of 2^20: the product is
\* taken modulo 2^64, so hi * 2^63 is 0 for an even hi and 2^63, the sign
\* bit, for an odd one
static_product(n) ==
    IF n.hi % 2 = 0 THEN [hi |-> 0, lo |-> n.lo]
    ELSE IF n.lo >= 0 THEN [hi |-> -1, lo |-> n.lo]
    ELSE [hi |-> 1, lo |-> n.lo]

\* downloadHandler step 1: the size parameter to totalSize, in bytes
static_totalSize(sizeParam) ==
    LET maxDownloadSizeMB == 100
        requestedSizeMB == IF sizeParam.k = "int" THEN sizeParam.v ELSE [hi |-> 0, lo |-> 50]
        product == static_product(requestedSizeMB)
        capped  == IF WideGt(product, maxDownloadSizeMB)
                   THEN [hi |-> 0, lo |-> maxDownloadSizeMB] ELSE product
        floored == IF WideLt(capped, 1) THEN [hi |-> 0, lo |-> 1] ELSE capped
    IN  floored.lo * MiB

\* downloadHandler of static/speedtest.js: the size, the headers and the
\* streaming loop, which ends when totalSize bytes are sent or a write fails;
\* failAt is the write that fails, counted from 0, or NA when none does
static_downloadHandler(failAt) ==
    /\ dl.pc = "request"
    /\ LET totalSize == static_totalSize(dl.sizeParam)
           chunks    == (totalSize + static_downloadChunkSize - 1) \div static_downloadChunkSize
           writes    == IF failAt = NA THEN chunks ELSE failAt
       IN  dl' = [dl EXCEPT !.pc = IF failAt = NA THEN "done" ELSE "aborted",
                            !.totalSize = totalSize,
                            !.contentLength = totalSize,
                            !.chunkSize = static_downloadChunkSize,
                            !.writes = writes,
                            !.flushes = IF dl.flusher THEN writes ELSE 0,
                            !.sentBytes = IF failAt = NA THEN totalSize
                                          ELSE writes * static_downloadChunkSize,
                            !.writeFailed = failAt # NA]
    /\ UNCHANGED <<clientVars, maxDownloadSize, downloadChunkSize, storeVars, rtc, ul>>

\* ------------------------------------------------- the Analyzer on its own
MaxSent == 3                       \* packets dispatched, at most
RttValues == {90, 100, 120}        \* round-trip times of the samples

RECURSIVE SeqsUpTo(_, _)
SeqsUpTo(S, n) ==
    IF n = 0 THEN {<<>>}
    ELSE LET shorter == SeqsUpTo(S, n - 1)
         IN  shorter \cup {Append(q, x) : q \in shorter, x \in S}

\* a session whose handler is about to call calculateJitterLoss with some
\* samples and some dispatched count
InitAnalyzer ==
    /\ InitServer
    /\ disabled = TRUE
    /\ results = EmptyResults
    /\ dom = EmptyDom
    /\ shareUrl = "none"
    /\ history = <<>>
    /\ curRun = 1
    /\ phase = [r \in Runs |-> IF r = 1 THEN "webrtc" ELSE "idle"]
    /\ \E total \in 1..MaxSent : \E rtts \in SeqsUpTo(RttValues, total) :
           sess = [r \in Runs |->
                      IF r = 1
                      THEN [NoSession EXCEPT !.sig = "answered", !.dc = "closing",
                                             !.packetCounter = total,
                                             !.receivedCounter = Len(rtts),
                                             !.receivedTimestamps = rtts]
                      ELSE NoSession]
    /\ pendingSaves = EmptyBag
    /\ posts = [r \in Runs |-> 0]
    /\ analyzerCalls = [r \in Runs |-> 0]
    /\ probe = NoProbe
    /\ downloadedBytes = NA
    /\ sizes = NoSizes
    /\ page = PlainPage

analyzerCall ==
    /\ analyzerCalls[1] = 0
    /\ calculateJitterLoss(1, sess[1].receivedTimestamps, sess[1].packetCounter)
    /\ UNCHANGED <<serverVars, page, disabled, history, curRun, phase, sess, probe, downloadedBytes,
                   sizes>>

\* ------------------------------------------------------------ specifications
Init == InitClient /\ InitServer

\* one run of the client, from the click to its last late event
Next ==
    \/ ClientStep({1})
    \/ onIceConnectionStateChange(1)

Spec == Init /\ [][Next]_vars

\* successive runs of the client over a connection whose ICE state holds
NextRuns == ClientStep(Runs)

SpecRuns == Init /\ [][NextRuns]_vars

NextAnalyzer == analyzerCall

SpecAnalyzer == InitAnalyzer /\ [][NextAnalyzer]_vars

NextDownload ==
    \/ downloadHandler
    \/ writeChunk
    \/ Flush
    \/ writeError

SpecDownload == InitDownload /\ [][NextDownload]_vars

\* round-trip times of a successful trip of the latency probe
PingRtts == {10, 40}

\* the latency probe of the first run, trip by trip
NextLatency ==
    \/ runAllTests(1)
    \/ \E outcome \in PingRtts \cup {Dropped} : pingResponse(outcome)
    \/ pingDelay

SpecLatency == Init /\ [][NextLatency]_vars

\* the connection once the answer has been sent and the peer is connected
InitEcho ==
    /\ InitClient
    /\ maxDownloadSize = mainValidation(100)
    /\ downloadChunkSize = 1024 * 1024
    /\ dl = NoDownload
    /\ InitStore
    /\ rtc = [NoPeer EXCEPT !.pc = "connected"]
    /\ ul = NoUpload

\* the data channels of one peer connection
NextEcho ==
    \/ \E c \in Channels : OnDataChannel(c)
    \/ \E c \in Channels, msg \in Messages, err \in BOOLEAN : OnMessage(c, msg, err)
    \/ \E c \in Channels : OnClose(c)

SpecEcho == InitEcho /\ [][NextEcho]_vars

\* ------------------------------------------------ saveHistory on its own
MaxHistoryRuns == 7      \* completed runs whose result is recorded

\* Result Records handed to saveHistory: a full one, a partial one
HistoryRecords ==
    { [downloadSpeedMbps |-> 9412, uploadSpeedMbps |-> 4120, latencyMs |-> 1250,
       jitterMs |-> 25, packetLossPercent |-> 40],
      [downloadSpeedMbps |-> 0, uploadSpeedMbps |-> 4120, latencyMs |-> 0,
       jitterMs |-> 0, packetLossPercent |-> 0] }

\* the next run completes and its record fr is handed to saveHistory
completedRun(fr) ==
    /\ curRun < MaxHistoryRuns
    /\ curRun' = curRun + 1
    /\ history' = saveHistory(history, curRun + 1, fr)
    /\ UNCHANGED <<serverVars, page, disabled, results, dom, shareUrl, phase, sess, pendingSaves,
                   posts, analyzerCalls, probe, downloadedBytes, sizes>>

NextHistory == \E fr \in HistoryRecords : completedRun(fr)

SpecHistory == Init /\ [][NextHistory]_vars

\* a request for /upload reaches the server
InitUpload ==
    /\ InitClient
    /\ maxDownloadSize = mainValidation(100)
    /\ downloadChunkSize = 1024 * 1024
    /\ dl = NoDownload
    /\ InitStore
    /\ rtc = NoPeer
    /\ \E method \in {"POST", "GET", "PUT"}, body \in SeqsUpTo({1, 2, 3}, MaxBodyChunks) :
           ul = [NoUpload EXCEPT !.pc = "request", !.method = method, !.body = body]

NextUpload ==
    \/ uploadHandler
    \/ copyRead
    \/ copyEOF
    \/ copyError

SpecUpload == InitUpload /\ [][NextUpload]_vars

\* static/speedtest.js: a session whose signaling has succeeded, after
\* sub-tests that measured or failed; the channel and the ICE connection stay
\* up, so the channel closes only after dc.close()
InitStatic ==
    /\ InitServer
    /\ disabled = TRUE
    /\ \E lat \in {<<NA, 1>>, <<25, 2>>}, down \in {NA, 9412}, up \in {NA, 4120} :
           /\ results = [EmptyResults EXCEPT !.latency = lat, !.download = down, !.upload = up]
           /\ dom = [EmptyDom EXCEPT !.latency = IF lat[1] = NA THEN NA ELSE toFixed2(lat),
                                     !.download = down, !.upload = up,
                                     !.jitterStatus = "Starting WebRTC connection..."]
    /\ shareUrl = "none"
    /\ history = <<>>
    /\ curRun = 1
    /\ phase = [r \in Runs |-> IF r = 1 THEN "webrtc" ELSE "idle"]
    /\ sess = [r \in Runs |-> IF r = 1
                              THEN [NoSession EXCEPT !.sig = "answered", !.dc = "connecting"]
                              ELSE NoSession]
    /\ pendingSaves = EmptyBag
    /\ posts = [r \in Runs |-> 0]
    /\ analyzerCalls = [r \in Runs |-> 0]
    /\ probe = NoProbe
    /\ downloadedBytes = NA
    /\ sizes = NoSizes
    /\ page = PlainPage

NextStatic ==
    \/ dcOnOpen(1)
    \/ static_sendPacket(1)
    \/ \E p \in sess[1].inflight : static_dcOnMessage(1, p)
    \/ \E p \in sess[1].inflight : echoLost(1, p)
    \/ sess[1].dc = "closing" /\ static_dcOnClose(1)
    \/ Tick(1)

\* timers fire, the clock advances, events that are queued are delivered; a
\* packet in flight is delivered unless it is lost
SpecStatic ==
    /\ InitStatic
    /\ [][NextStatic]_vars
    /\ WF_vars(dcOnOpen(1))
    /\ WF_vars(static_sendPacket(1))
    /\ WF_vars(\E p \in sess[1].inflight : static_dcOnMessage(1, p))
    /\ WF_vars(sess[1].dc = "closing" /\ static_dcOnClose(1))
    /\ WF_vars(Tick(1))

\* the page with some text typed into one of the size inputs
InitSize ==
    /\ disabled = FALSE
    /\ results = EmptyResults
    /\ dom = EmptyDom
    /\ shareUrl = "none"
    /\ history = <<>>
    /\ curRun = 0
    /\ phase = [r \in Runs |-> "idle"]
    /\ sess = [r \in Runs |-> NoSession]
    /\ pendingSaves = EmptyBag
    /\ posts = [r \in Runs |-> 0]
    /\ analyzerCalls = [r \in Runs |-> 0]
    /\ probe = NoProbe
    /\ downloadedBytes = NA
    /\ \E t \in TextsUpTo(MaxInputLen) :
           \/ sizes = [NoSizes EXCEPT !.download = t]
           \/ sizes = [NoSizes EXCEPT !.upload = t]
    /\ page = PlainPage
    /\ InitServer

NextSize ==
    \/ getDownloadSizeMB
    \/ getUploadSizeMB
    \/ \E which \in {"download", "upload"} : onChange(which)

SpecSize == InitSize /\ [][NextSize]_vars

\* the signaling exchange of one run: the client's promise chain and the
\* server's handler of its POST.  The fetch resolves when the handler has
\* written a response; an error response has no JSON body.
InitOffer ==
    /\ InitServer
    /\ disabled = TRUE
    /\ results = EmptyResults
    /\ dom = [EmptyDom EXCEPT !.jitterStatus = "Starting WebRTC connection..."]
    /\ shareUrl = "none"
    /\ history = <<>>
    /\ curRun = 1
    /\ phase = [r \in Runs |-> IF r = 1 THEN "webrtc" ELSE "idle"]
    /\ sess = [r \in Runs |-> IF r = 1 THEN runWebRTCTest ELSE NoSession]
    /\ pendingSaves = EmptyBag
    /\ posts = [r \in Runs |-> 0]
    /\ analyzerCalls = [r \in Runs |-> 0]
    /\ probe = NoProbe
    /\ downloadedBytes = NA
    /\ sizes = NoSizes
    /\ page = PlainPage

NextOffer ==
    \/ /\ \/ sess[1].sig \in {"createOffer", "setLocalDescription", "gathering"}
          \/ sess[1].sig = "fetch" /\ rtc.handler = "returned"
          \/ sess[1].sig = "json" /\ rtc.status = 200
       /\ signalingStep(1)
    \/ /\ sess[1].sig = "json" => rtc.status # 200
       /\ signalingError(1)
    \/ signalingAnswer(1)
    \/ sess[1].sig = "fetch" /\ webrtcOfferHandler
    \/ \E err \in BOOLEAN : handlerStep(err)
    \/ gatheringComplete
    \/ sendAnswer
    \/ sess[1].sig = "answered" /\ peerConnected
    \/ \E c \in Channels : OnDataChannel(c)
    \/ \E c \in Channels, msg \in Messages, err \in BOOLEAN : OnMessage(c, msg, err)
    \/ \E c \in Channels : OnClose(c)

\* statements of the handler run, responses reach the client, events of an
\* open channel are delivered; whether ICE gathering completes, whether the
\* peers connect and whether the client opens or closes a channel is left open
SpecOffer ==
    /\ InitOffer
    /\ [][NextOffer]_vars
    /\ WF_vars(\E err \in BOOLEAN : handlerStep(err))
    /\ WF_vars(sendAnswer)
    /\ WF_vars(sess[1].sig = "fetch" /\ webrtcOfferHandler)

\* the page from its load on, with or without a resultId in the URL
InitShared ==
    /\ InitServer
    /\ disabled = FALSE
    /\ results = EmptyResults
    /\ dom = EmptyDom
    /\ shareUrl = "none"
    /\ history = <<>>
    /\ curRun = 0
    /\ phase = [r \in Runs |-> "idle"]
    /\ sess = [r \in Runs |-> NoSession]
    /\ pendingSaves = EmptyBag
    /\ posts = [r \in Runs |-> 0]
    /\ analyzerCalls = [r \in Runs |-> 0]
    /\ probe = NoProbe
    /\ downloadedBytes = NA
    /\ sizes = NoSizes
    /\ page \in {[loaded |-> FALSE, search |-> q, fetch |-> "none"] : q \in {"", "?resultId=", "?resultId=2f1c"}}

NextShared ==
    \/ windowOnload
    \/ \E ok \in BOOLEAN : loadResultFromUrl(ok)
    \/ ClientStep({1})
    \/ onIceConnectionStateChange(1)

SpecShared == InitShared /\ [][NextShared]_vars

\* a request for /download reaches the server of static/speedtest.js
InitStaticDownload ==
    /\ InitClient
    /\ maxDownloadSize = mainValidation(100)
    /\ downloadChunkSize = 1024 * 1024
    /\ \E p \in [k : {"int"}, v : WideInts]
                  \cup [k : {"range", "empty", "text"}, v : {[hi |-> 0, lo |-> 0]}],
          f \in BOOLEAN :
           dl = [NoDownload EXCEPT !.pc = "request", !.sizeParam = p, !.flusher = f]
    /\ InitStore
    /\ rtc = NoPeer
    /\ ul = NoUpload

NextStaticDownload == \E failAt \in {NA, 0, 1, 255} : static_downloadHandler(failAt)

SpecStaticDownload == InitStaticDownload /\ [][NextStaticDownload]_vars

\* requests to the result store
NextStore ==
    \/ \E method \in {"POST", "GET"}, body \in SaveBodies, t \in ServerTimes, fault \in BOOLEAN :
           saveResultHandler(method, body, t, fault)
    \/ \E method \in {"GET", "POST"}, id \in LoadIds, fault \in BOOLEAN :
           loadResultHandler(method, id, fault)

SpecStore == Init /\ [][NextStore]_vars

\* ==================================================================== claims
\* terminal conditions of run r's exchange session that have fired so far
TerminalEvents(r) ==
    analyzerCalls[r] + sess[r].iceEvents
        + (IF sess[r].dc = "closed" THEN 1 ELSE 0)
        + (IF sess[r].sig = "failed" THEN 1 ELSE 0)

\* entries of the local history recorded by finalizations of run r
HistoryEntries(r) == Cardinality({i \in DOMAIN history : history[i].run = r})

\* run r has submitted a result and none of its requests is still in flight
Settled(r) == posts[r] > 0 /\ \A s \in BagToSet(pendingSaves) : s.by # r

\* C1: the in-flight flag set by a run is cleared, and history recorded, only
\* by a finalization of that same run: the settling of a /save-result request
\* of an earlier run never clears the flag or records history while a later
\* run holds the flag.
C1_OnlyOwnRunClearsFlag ==
    [][\A s \in BagToSet(pendingSaves) :
          (/\ pendingSaves' = pendingSaves (-) SetToBag({s})
           /\ (disabled' # disabled \/ history' # history))
              => s.by = curRun]_vars

\* C2: once two or more terminal conditions of a run have fired, its Result
\* Record has been submitted to /save-result exactly once.
C2_SubmittedExactlyOnce ==
    \A r \in Runs : TerminalEvents(r) >= 2 => posts[r] = 1

\* C3: a run never has more than one entry in the local history, and has
\* exactly one once its finalization has gone through.
C3_OneHistoryEntryPerRun ==
    \A r \in Runs :
        /\ HistoryEntries(r) <= 1
        /\ Settled(r) => HistoryEntries(r) = 1

\* C4: once the save-result requests of the run holding the in-flight flag
\* have settled, the flag is released (also when latency, download and upload
\* all failed).
C4_FlagReleasedOnceSettled ==
    \A r \in Runs : (curRun = r /\ Settled(r)) => ~disabled

\* C5: calculateJitterLoss is invoked at most once for a run, and exactly once
\* when its session has reached a terminal condition (channel closed, or ICE
\* failed/disconnected).
C5_AnalyzerExactlyOnce ==
    \A r \in Runs :
        /\ analyzerCalls[r] <= 1
        /\ (sess[r].dc = "closed" \/ sess[r].iceEvents > 0) => analyzerCalls[r] = 1

\* C6: the grace timeout does not run (closing the channel and invoking the
\* Analyzer) before startTestTime + NUM_PACKETS*PACKET_INTERVAL + MAX_WAIT_BUFFER.
C6_GraceNotBeforeDeadline ==
    [][\A r \in Runs :
          (sess[r].timeoutPending /\ ~sess'[r].timeoutPending)
              => sess[r].elapsed >= NUM_PACKETS * PACKET_INTERVAL + MAX_WAIT_BUFFER]_vars

\* C7: with D packets dispatched and R samples received (D >= 1, R <= D),
\* calculateJitterLoss sets packet loss to (D - R) / D * 100: 0 when R = D and
\* 100 when R = 0.
C7_LossFormula ==
    analyzerCalls[1] = 1 =>
        LET D == sess[1].packetCounter
            R == Len(sess[1].receivedTimestamps)
            q == results.packetLoss
        IN  /\ q[2] > 0
            /\ q[1] * D = (D - R) * 100 * q[2]
            /\ R = D => q = <<0, 1>>
            /\ R = 0 => q = <<100, 1>>

C7_Witness ==
    /\ analyzerCalls[1] = 1
    /\ Len(sess[1].receivedTimestamps) > 0
    /\ Len(sess[1].receivedTimestamps) < sess[1].packetCounter

\* the sum of |s[i] - s[i-1]| over i = 2..n
RECURSIVE SumAbsDeltas(_, _)
SumAbsDeltas(s, n) ==
    IF n < 2 THEN 0 ELSE SumAbsDeltas(s, n - 1) + Abs(s[n] - s[n - 1])

\* C8: calculateJitterLoss sets jitter to the mean absolute difference of
\* consecutive RTT samples in arrival order, to exactly 0 with fewer than two
\* samples, to 25 for [100, 120, 90], and to another value (20) for the same
\* samples arriving as [100, 90, 120].
C8_JitterFormula ==
    analyzerCalls[1] = 1 =>
        LET rtts == sess[1].receivedTimestamps
            R    == Len(rtts)
            j    == results.jitter
        IN  /\ R < 2 => j = <<0, 1>>
            /\ R >= 2 => (j[2] > 0 /\ j[1] * (R - 1) = j[2] * SumAbsDeltas(rtts, R))
            /\ rtts = <<100, 120, 90>> => j = <<25, 1>>
            /\ rtts = <<100, 90, 120>> => j = <<20, 1>>

C8_Witness ==
    /\ analyzerCalls[1] = 1
    /\ sess[1].receivedTimestamps = <<100, 120, 90>>
    /\ results.jitter = <<25, 1>>

\* the response carries totalBytes: declared, and streamed when no write failed
Serves(totalBytes) ==
    /\ dl.contentLength = totalBytes
    /\ dl.pc = "done" => dl.sentBytes = totalBytes

\* C9 as claimed: for every requested size N >= 1 (whatever its magnitude)
\* and every configured maximum M >= 1 the response carries
\* min(N, M, 1024) MB, between 1 MB and min(M, 1024) MB.
C9_EveryPositiveSize ==
    LET p == dl.sizeParam
        M == maxDownloadSize
    IN  (/\ dl.pc # "request"
         /\ M >= 1
         /\ (p.k = "int" /\ p.v >= 1) \/ (p.k = "range" /\ p.v = 1))
            => Serves((IF p.k = "int" THEN Min(Min(p.v, M), 1024) ELSE Min(M, 1024))
                          * 1024 * 1024)

\* C9: for every requested size N with 1 <= N <= 2^63 - 1 and every
\* configured maximum M >= 1 the response declares as Content-Length and,
\* absent a write failure, streams min(N, M, 1024) * 1024 * 1024 bytes, never
\* below 1 MB nor above min(M, 1024) MB; a size beyond int64 is served as the
\* default, min(10, M) MB.
C9_SizeClamped ==
    LET p == dl.sizeParam
        M == maxDownloadSize
    IN  (dl.pc # "request" /\ M >= 1) =>
            /\ (p.k = "int" /\ p.v >= 1) =>
                   Serves(Min(Min(p.v, M), 1024) * 1024 * 1024)
            /\ (p.k = "range" /\ p.v = 1) =>
                   Serves(Min(10, M) * 1024 * 1024)
            /\ dl.contentLength >= 1024 * 1024
            /\ dl.contentLength <= Min(M, 1024) * 1024 * 1024

C9_Witness ==
    /\ dl.pc = "done"
    /\ dl.sizeParam.k = "int"
    /\ maxDownloadSize >= 1
    /\ dl.sizeParam.v > maxDownloadSize
    /\ dl.sentBytes = maxDownloadSize * 1024 * 1024

\* a size parameter the handler replaces by the default
InvalidSize(p) == p.k \in {"empty", "text"} \/ (p.k = "int" /\ p.v <= 0)

Ceil(a, b) == (a + b - 1) \div b

\* C11: a download of total size T streamed in chunks of C bytes (C > 0, a
\* configured chunk size <= 0 counting as 1 MB): while the loop runs every
\* write so far carried exactly C bytes and fewer than T bytes are out, so the
\* loop makes at most ceil(T / C) iterations; when it completes it has made
\* exactly ceil(T / C) writes whose total is T, the declared Content-Length.
\* 10 MB in 1 MB chunks is 10 writes and 10*1024*1024 bytes.
C11_ChunkedExactly ==
    LET T == dl.totalSize
        C == dl.chunkSize
    IN  /\ dl.pc \in {"stream", "done", "aborted"} =>
               /\ C > 0
               /\ C = (IF downloadChunkSize <= 0 THEN 1024 * 1024 ELSE downloadChunkSize)
               /\ dl.contentLength = T
               /\ dl.writes <= Ceil(T, C)
        /\ dl.pc \in {"stream", "aborted"} =>
               /\ dl.sentBytes = dl.writes * C
               /\ dl.sentBytes < T
        /\ dl.pc = "done" =>
               /\ dl.writes = Ceil(T, C)
               /\ dl.sentBytes = T
               /\ dl.sentBytes = (dl.writes - 1) * C + (T - (dl.writes - 1) * C)
               /\ T - (dl.writes - 1) * C >= 1
               /\ T - (dl.writes - 1) * C <= C
               /\ (T = 10 * 1024 * 1024 /\ C = 1024 * 1024) =>
                      (dl.writes = 10 /\ dl.sentBytes = 10 * 1024 * 1024)

\* a completed download whose last write is shorter than the chunk
C11_Witness ==
    /\ dl.pc = "done"
    /\ dl.totalSize = 10 * 1024 * 1024
    /\ dl.chunkSize = 3 * 1024 * 1024
    /\ dl.writes = 4
    /\ dl.sentBytes = 10 * 1024 * 1024

MeasurementKeys == {"downloadSpeedMbps", "uploadSpeedMbps", "latencyMs", "jitterMs",
                    "packetLossPercent"}

\* C12: round trip.  A GET /results/{id} for an id that /save-result returned
\* with a 200, served by the store, answers 200 with the five measurement
\* values of the body that was submitted for that id, whatever was saved in
\* between (a field the body left out comes back as 0).
C12_RoundTrip ==
    (resp.op = "load" /\ resp.status # 405 /\ resp.id \in DOMAIN accepted /\ ~resp.fault) =>
        /\ resp.status = 200
        /\ \A k \in MeasurementKeys :
               resp.body[k] = (IF accepted[resp.id][k] = null THEN 0 ELSE accepted[resp.id][k])

\* the first record is loaded after two more saves
C12_Witness ==
    /\ resp.op = "load"
    /\ resp.status = 200
    /\ resp.id = 1
    /\ Len(store) = 3
    /\ resp.body.downloadSpeedMbps = 9412
    /\ accepted[1].downloadSpeedMbps = 9412
    /\ accepted[2].downloadSpeedMbps = null

\* C13: a run whose latency probe had no successful trip reports latency as
\* not measured wherever it reports it: results.latency stays unset, the
\* latency field shows N/A with status 'Failed to measure.', and the Result
\* Record the run submits does not carry a latency of zero.
C13_NotMeasuredNeverZero ==
    \A r \in Runs :
        (curRun = r /\ phase[r] \notin {"idle", "latency"} /\ probe.latencies = <<>>) =>
            /\ results.latency = <<NA, 1>>
            /\ dom.latency = NA
            /\ dom.latencyStatus = "Failed to measure."
            /\ \A s \in BagToSet(pendingSaves) : s.by = r => s.fr.latencyMs # 0

\* the round-trip times of the trips of a log that succeeded, in order
Successes(log) == SelectSeq(log, LAMBDA x : x # Dropped)

\* C14: the latency probe makes exactly numPings = 10 trips one after another
\* (a trip is fetched only when every earlier trip has settled and its delay
\* has elapsed); a dropped trip contributes no sample and the later trips
\* still run; with at least one success the latency reported is the
\* arithmetic mean of the successful trips only.
C14_TenTripsMeanOfSuccesses ==
    /\ probe.pc = "fetch" => Len(probe.log) = probe.i /\ probe.i < numPings
    /\ probe.pc = "delay" => Len(probe.log) = probe.i + 1 /\ probe.i < numPings
    /\ probe.latencies = Successes(probe.log)
    /\ probe.pc = "done" =>
           /\ Len(probe.log) = numPings
           /\ probe.i = numPings
           /\ LET succ == Successes(probe.log)
                  q    == results.latency
              IN  IF Len(succ) = 0
                  THEN q = <<NA, 1>> /\ dom.latencyStatus = "Failed to measure."
                  ELSE /\ q[2] > 0
                       /\ q[1] * Len(succ) = q[2] * Sum(succ, Len(succ))
                       /\ dom.latency = toFixed2(q)
                       /\ dom.latencyStatus = "Complete"

\* trips 1 and 3 are dropped, the other eight average 25
C14_Witness ==
    /\ probe.pc = "done"
    /\ probe.log = <<Dropped, 10, Dropped, 40, 10, 40, 10, 40, 10, 40>>
    /\ results.latency = <<25, 1>>
    /\ dom.latency = 2500

\* the order of the positions of a runAllTests coroutine
PhaseOrder == { <<"idle", "latency">>, <<"latency", "download">>,
                <<"download", "upload">>, <<"upload", "webrtc">> }

\* C15: within a run the sub-tests run strictly in the order latency,
\* download, upload, exchange session: a sub-test is started only by the step
\* in which the previous one completed or failed, the exchange session is
\* created only by the step that ends the upload, and a sub-test that failed
\* has started the next one all the same.
C15_SubTestsInOrder ==
    /\ [](/\ dom.downloadStatus # "Ready" =>
                dom.latencyStatus \in {"Complete", "Failed to measure."}
          /\ dom.uploadStatus # "Ready" =>
                dom.downloadStatus \in {"Complete", "Failed", "Failed: Zero bytes received."}
          /\ dom.jitterStatus # "Ready" => dom.uploadStatus \in {"Complete", "Failed"}
          /\ dom.latencyStatus = "Failed to measure." => dom.downloadStatus # "Ready"
          /\ dom.downloadStatus \in {"Failed", "Failed: Zero bytes received."} =>
                dom.uploadStatus # "Ready"
          /\ dom.uploadStatus = "Failed" =>
                (dom.jitterStatus # "Ready" /\ sess[curRun].sig # "none"))
    /\ [][\A r \in Runs :
             /\ phase'[r] # phase[r] => <<phase[r], phase'[r]>> \in PhaseOrder
             /\ (sess[r].sig = "none" /\ sess'[r].sig # "none") =>
                    (phase[r] = "upload" /\ phase'[r] = "webrtc")]_vars

\* latency, download and upload all failed and the exchange session runs
C15_Witness ==
    /\ phase[1] = "webrtc"
    /\ dom.latencyStatus = "Failed to measure."
    /\ dom.downloadStatus = "Failed"
    /\ dom.uploadStatus = "Failed"
    /\ sess[1].sig = "answered"
    /\ sess[1].dc = "open"

\* the Result Record of the present results: what was measured, in
\* hundredths, and 0 for what was not
RecordOf(res) ==
    [downloadSpeedMbps |-> IF res.download = NA THEN 0 ELSE 100 * res.download,
     uploadSpeedMbps   |-> IF res.upload = NA THEN 0 ELSE 100 * res.upload,
     latencyMs         |-> IF res.latency[1] = NA THEN 0 ELSE toFixed2(res.latency),
     jitterMs          |-> IF res.jitter[1] = NA THEN 0 ELSE toFixed2(res.jitter),
     packetLossPercent |-> IF res.packetLoss[1] = NA THEN 0 ELSE toFixed2(res.packetLoss)]

\* C16: a rejection of any step of the negotiation (createOffer,
\* setLocalDescription, the signaling fetch, decoding the answer,
\* setRemoteDescription) sets the status 'WebRTC setup failed.' and calls
\* finalizeTest, which submits the Result Record of the latency, download and
\* upload results that exist; a run whose negotiation failed has the status
\* set and has been finalized.
C16_SetupFailureFinalizes ==
    /\ [](\A r \in Runs :
             sess[r].sig = "failed" =>
                 /\ posts[r] >= 1
                 /\ curRun = r => dom.jitterStatus = "WebRTC setup failed.")
    /\ [][\A r \in Runs :
             (sess[r].sig # "failed" /\ sess'[r].sig = "failed") =>
                 /\ sess[r].sig \in Rejecting
                 /\ dom'.jitterStatus = "WebRTC setup failed."
                 /\ posts'[r] = posts[r] + 1
                 /\ pendingSaves' =
                        pendingSaves (+) SetToBag({[by |-> r, fr |-> RecordOf(results)]})
                 /\ results' = results]_vars

\* the negotiation of a run with a download result but no latency fails
C16_Witness ==
    /\ sess[1].sig = "failed"
    /\ dom.jitterStatus = "WebRTC setup failed."
    /\ posts[1] = 1
    /\ results.download = 1
    /\ results.latency = <<NA, 1>>
    /\ \E s \in BagToSet(pendingSaves) :
           s.by = 1 /\ s.fr.downloadSpeedMbps = 100 /\ s.fr.latencyMs = 0

\* C17: whenever a finalize path runs for a run its sending timer is stopped,
\* and a probe packet is sent only over an open channel of a run that has
\* not been finalized.
C17_NoSendAfterFinalize ==
    [][\A r \in Runs :
          /\ posts'[r] > posts[r] => ~sess'[r].intervalId
          /\ sess'[r].packetCounter > sess[r].packetCounter =>
                 (sess[r].dc = "open" /\ posts[r] = 0)]_vars

RECURSIVE Echoes(_, _)
\* the messages the first n dc.Send calls of a channel put on it
Echoes(sends, n) ==
    IF n = 0 THEN <<>>
    ELSE IF sends[n].err THEN Echoes(sends, n - 1)
    ELSE Append(Echoes(sends, n - 1), sends[n].data)

\* C18: on every data channel the server makes exactly one dc.Send per
\* message received, in the order received and with the bytes received; what
\* it puts on the channel is those bytes for every send that succeeded and
\* nothing else; a failed send is logged and leaves the channel and the
\* connection as they were.
C18_EchoExactlyOnce ==
    /\ [](\A c \in Channels :
             LET ch == rtc.dcs[c] IN
             /\ Len(ch.sends) = Len(ch.received)
             /\ \A k \in DOMAIN ch.received : ch.sends[k].data = ch.received[k].data
             /\ Len(ch.sent) = Len(Echoes(ch.sends, Len(ch.sends)))
             /\ \A k \in DOMAIN ch.sent : ch.sent[k].data = Echoes(ch.sends, Len(ch.sends))[k]
             /\ ch.logged = Len(ch.sends) - Len(ch.sent))
    /\ [][\A c \in Channels :
             rtc'.dcs[c].logged > rtc.dcs[c].logged =>
                 /\ rtc'.dcs[c].state = rtc.dcs[c].state
                 /\ rtc'.pc = rtc.pc
                 /\ \A d \in Channels \ {c} : rtc'.dcs[d] = rtc.dcs[d]]_vars

\* channel 2 has echoed its second message after the echo of the first failed
C18_Witness ==
    /\ rtc.dcs[2].state = "open"
    /\ Len(rtc.dcs[2].received) = 2
    /\ rtc.dcs[2].sends[1].err
    /\ rtc.dcs[2].sent = <<[data |-> <<123, 125>>, isString |-> FALSE]>>
    /\ rtc.dcs[2].received[2] = [data |-> <<123, 125>>, isString |-> TRUE]
    /\ rtc.dcs[1].sent = <<>>

\* C19: the local history never holds more than MAX_HISTORY_ITEMS = 5
\* entries and is ordered most recent first; a completed run puts its entry
\* at index 0, the entries stored before keep their relative order behind
\* it, and only the oldest beyond the fifth are dropped.
C19_HistoryCappedNewestFirst ==
    /\ [](/\ Len(history) <= 5
          /\ \A j, k \in DOMAIN history : j < k => history[j].run > history[k].run)
    /\ [][history' # history =>
             /\ Len(history') = Min(Len(history) + 1, 5)
             /\ history'[1].run = curRun'
             /\ \A k \in 2..Len(history') : history'[k] = history[k - 1]]_vars

\* seven runs have completed: the entries of runs 1 and 2 are gone
C19_Witness ==
    /\ curRun = 7
    /\ Len(history) = 5
    /\ history[1].run = 7
    /\ history[5].run = 3
    /\ history[1].download = 9412
    /\ history[2].download = NA

\* C20: when a /save-result request of the run holding the in-flight flag has
\* failed (network error or non-success status) and none is still in flight,
\* the run's results are recorded in the local history and the flag is
\* released; only the share link is withheld.
C20_SaveFailureNonFatal ==
    \A r \in Runs :
        (curRun = r /\ shareUrl = "failed" /\ Settled(r)) =>
            /\ ~disabled
            /\ HistoryEntries(r) >= 1

\* C21: /upload answers 200 only to a POST whose body has been read to its
\* end (every piece handed out and discarded, then io.EOF); a read failure
\* answers 500 and never 200; a non-POST request answers 405 and its body is
\* not read.
C21_UploadDrained ==
    /\ ul.status \in {0, 200, 405, 500}
    /\ ul.status # 0 <=> ul.pc = "done"
    /\ ul.status = 200 =>
           /\ ul.method = "POST"
           /\ ~ul.failed
           /\ ul.read = Len(ul.body)
           /\ ul.uploadedBytes = Sum(ul.body, Len(ul.body))
    /\ ul.failed => ul.status = 500
    /\ ul.status = 500 => (ul.failed /\ ul.method = "POST")
    /\ ul.method # "POST" => (ul.read = 0 /\ ul.status \in {0, 405})
    /\ ul.status = 405 => ul.method # "POST"

\* a read fails after two of three pieces
C21_Witness ==
    /\ ul.status = 500
    /\ Len(ul.body) = 3
    /\ ul.read = 2

\* C22: a stored Result Record is immutable.  Every step keeps each stored
\* record under its id with its document; the store changes only by a
\* /save-result answered 200, which adds one record under an id that was not
\* stored before; a /results/{id} request leaves the store as it was.
C22_RecordsImmutable ==
    [][ /\ \A id \in DOMAIN store : id \in DOMAIN store' /\ store'[id] = store[id]
        /\ store' # store =>
               /\ resp'.op = "save" /\ resp'.status = 200
               /\ resp'.id \notin DOMAIN store
               /\ DOMAIN store' = DOMAIN store \cup {resp'.id}
        /\ (resp'.op = "save" /\ resp'.status = 200) => store' # store
        /\ resp'.op = "load" => store' = store ]_vars

\* three different records are stored and the first has just been loaded
C22_Witness ==
    /\ Len(store) = 3
    /\ store[1] # store[2]
    /\ store[2] # store[3]
    /\ resp.op = "load"
    /\ resp.status = 200
    /\ resp.body = store[1]

\* C23: GET /results/{id} answers 405 to a method other than GET, 400 to an
\* empty id, 500 when the store fails otherwise, and 404 exactly when the
\* store answers that no record is stored under the id; only a 200 carries a
\* record.
C23_LoadStatuses ==
    resp.op = "load" =>
        /\ resp.status \in {200, 400, 404, 405, 500}
        /\ resp.status = 405 <=> resp.method # "GET"
        /\ resp.status = 400 <=> (resp.method = "GET" /\ resp.id = 0)
        /\ resp.status = 500 <=> resp.fault
        /\ resp.status = 404 <=>
               (resp.method = "GET" /\ resp.id # 0 /\ ~resp.fault /\ resp.id \notin DOMAIN store)
        /\ resp.status = 200 => resp.body = store[resp.id]
        /\ resp.status # 200 => resp.body = NoObject

\* an id that is not stored yet, next to two that are
C23_Witness ==
    /\ resp.op = "load"
    /\ resp.status = 404
    /\ resp.id = 3
    /\ Len(store) = 2

\* C24: POST /save-result answers 200 with the id of a stored record only to
\* a POST whose body is at most maxRequestSize long, decodes, and is accepted
\* by the store; a method other than POST answers 405, an undecodable or
\* oversized body 400, a store failure 500.
C24_SaveStatuses ==
    resp.op = "save" =>
        /\ resp.status = 200 =>
               /\ resp.method = "POST"
               /\ resp.req.kind = "json"
               /\ resp.req.length <= maxRequestSize
               /\ resp.id \in DOMAIN store
        /\ resp.method # "POST" => resp.status = 405
        /\ (resp.method = "POST" /\ (resp.req.kind # "json" \/ resp.req.length > maxRequestSize)) =>
               resp.status = 400
        /\ resp.fault => resp.status = 500

\* C25: the Analyzer is never invoked with a dispatched count of 0: at every
\* call of calculateJitterLoss the packetCounter handed over as
\* totalPacketsSent is at least 1, so the loss it computes is a number.
C25_AnalyzerCountPositive ==
    [][ \A r \in Runs :
            analyzerCalls'[r] # analyzerCalls[r] =>
                /\ sess[r].packetCounter >= 1
                /\ results'.packetLoss # NaN
                /\ dom'.loss # NA ]_vars

\* the grace timer hands over a session in which every echo was lost
C25_Witness ==
    /\ analyzerCalls[1] = 1
    /\ sess[1].packetCounter = NUM_PACKETS
    /\ sess[1].receivedCounter = 0
    /\ ~sess[1].timeoutPending
    /\ results.packetLoss = <<100, 1>>

\* C26: in static/speedtest.js, once the channel is open and all NUM_PACKETS
\* packets have been sent, the session eventually reaches a terminal
\* transition and finalizes the run (the in-flight flag is released), even
\* if echoes are lost while the channel and the ICE connection stay up.
C26_SessionTerminates ==
    (sess[1].dc = "open" /\ sess[1].packetCounter >= NUM_PACKETS) ~> ~disabled

\* C27: the Result Record a run submits is a snapshot of that run: each of
\* its five fields is the value the run measured or marks the field as not
\* measured; a failed sub-test is not submitted as 0.
C27_RecordIsSnapshot ==
    \A s \in BagToSet(pendingSaves) :
        LET fr == s.fr
            r  == s.by
        IN  /\ fr.downloadSpeedMbps \in {100 * Measured(r), NA}
            /\ fr.uploadSpeedMbps \in {100 * Measured(r), NA}
            /\ \/ fr.latencyMs = NA
               \/ TruthyQ(results.latency) /\ fr.latencyMs = toFixed2(results.latency)
            /\ \/ fr.jitterMs = NA
               \/ analyzerCalls[r] >= 1 /\ fr.jitterMs = toFixed2(results.jitter)
            /\ \/ fr.packetLossPercent = NA
               \/ analyzerCalls[r] >= 1 /\ fr.packetLossPercent = toFixed2(results.packetLoss)

\* C28: when a chunk write fails the download handler returns at once: the
\* failed write is followed by no write and no flush, neither in the step
\* that fails nor later, and nothing else of the server changes.
C28_WriteFailureAborts ==
    /\ [](dl.writeFailed => dl.pc = "aborted")
    /\ [][ (dl'.writeFailed /\ ~dl.writeFailed) =>
               /\ dl'.writes = dl.writes
               /\ dl'.flushes = dl.flushes
               /\ dl'.sentBytes = dl.sentBytes
               /\ UNCHANGED <<maxDownloadSize, downloadChunkSize, storeVars, rtc, ul>> ]_vars
    /\ [][ dl.writeFailed => UNCHANGED serverVars ]_vars

\* the third write of a download fails
C28_Witness ==
    /\ dl.pc = "aborted"
    /\ dl.writeFailed
    /\ dl.writes = 2
    /\ dl.flushes = 2
    /\ dl.sentBytes < dl.totalSize

\* C29: with a response writer that supports flushing, every successful
\* chunk write is followed by one flush before the next chunk is written: at
\* the top of the loop every chunk written is flushed, and at most one chunk
\* is ever written but unflushed.  A writer that does not support flushing
\* is never flushed.
C29_FlushAfterEachWrite ==
    /\ dl.flusher =>
           /\ dl.pc = "flush" => dl.writes = dl.flushes + 1
           /\ dl.pc \in {"stream", "done", "aborted"} => dl.writes = dl.flushes
    /\ ~dl.flusher => dl.flushes = 0

\* the second chunk is written and not yet flushed
C29_Witness ==
    /\ dl.flusher
    /\ dl.pc = "flush"
    /\ dl.writes = 2
    /\ dl.flushes = 1
    /\ dl.sentBytes < dl.totalSize

\* C30: a download that fails leaves the download not measured (no
\* results.download, the field at 'N/A') and the run goes on with the upload
\* sub-test; a response that completes with zero bytes is reported as
\* 'Failed: Zero bytes received.', a throw (transport error, non-success
\* status) as 'Failed', and only a download that read bytes as 'Complete'.
C30_FailedDownload ==
    /\ [](phase[1] \notin {"idle", "latency", "download"} =>
             /\ downloadedBytes = 0 <=> dom.downloadStatus = "Failed: Zero bytes received."
             /\ downloadedBytes = NA <=> dom.downloadStatus = "Failed"
             /\ downloadedBytes > 0 <=> dom.downloadStatus = "Complete"
             /\ dom.downloadStatus # "Complete" =>
                    /\ results.download = NA
                    /\ dom.download = NA
                    /\ dom.uploadStatus # "Ready")
    /\ [][ (phase[1] = "download" /\ phase'[1] # "download") =>
               /\ phase'[1] = "upload"
               /\ dom'.uploadStatus = "Testing Upload..." ]_vars

\* the upload was measured after a download of zero bytes
C30_Witness ==
    /\ phase[1] = "webrtc"
    /\ downloadedBytes = 0
    /\ dom.downloadStatus = "Failed: Zero bytes received."
    /\ dom.download = NA
    /\ dom.uploadStatus = "Complete"
    /\ results.upload = Measured(1)

RECURSIVE Pow10(_)
Pow10(k) == IF k = 0 THEN 1 ELSE 10 * Pow10(k - 1)

\* the number a size text denotes (sign, digits, decimal point, exponent), as
\* a fraction <<n, d>> with its sign apart; valid only if the whole text is a
\* number.  Exponents are cut at 4, beyond which every text of the model is
\* already outside [1, 100].
NumberOf(t) ==
    LET neg    == Len(t) >= 1 /\ t[1] = "-"
        first  == IF neg THEN 2 ELSE 1
        k1     == digitRun(t, first)
        p      == first + k1
        hasDot == p <= Len(t) /\ t[p] = "."
        k2     == IF hasDot THEN digitRun(t, p + 1) ELSE 0
        q      == IF hasDot THEN p + 1 + k2 ELSE p
        hasE   == q <= Len(t) /\ t[q] = "e"
        eneg   == hasE /\ q + 1 <= Len(t) /\ t[q + 1] = "-"
        efirst == IF eneg THEN q + 2 ELSE q + 1
        k3     == IF hasE THEN digitRun(t, efirst) ELSE 0
        end    == IF hasE THEN efirst + k3 ELSE q
        e      == Min(4, digitsValue(t, efirst, efirst + k3 - 1))
        m      == digitsValue(t, first, p - 1) * Pow10(k2) + digitsValue(t, p + 1, p + k2)
    IN  [valid |-> k1 + k2 >= 1 /\ (hasE => k3 >= 1) /\ end = Len(t) + 1,
         neg   |-> neg,
         n     |-> IF eneg THEN m ELSE m * Pow10(e),
         d     |-> IF eneg THEN Pow10(k2) * Pow10(e) ELSE Pow10(k2)]

\* clamp(v, 1, 100) of the size text t as a fraction, a text that is no
\* number or is below 1 counting as 1
clampedSize(t) ==
    LET v == NumberOf(t)
    IN  IF ~v.valid \/ v.neg \/ v.n < v.d THEN <<1, 1>>
        ELSE IF v.n > MAX_SIZE_MB * v.d THEN <<MAX_SIZE_MB, 1>>
        ELSE <<v.n, v.d>>

\* C31: whatever the size inputs hold, the download is requested with, and
\* the upload body made of, exactly clamp(v, 1, 100) MB, v being the number
\* in the input and a non-numeric or below-1 input counting as 1.
C31_SizesClamped ==
    [][ /\ sizes'.requestedSizeMB # sizes.requestedSizeMB =>
               LET c == clampedSize(sizes.download)
               IN  sizes'.requestedSizeMB * c[2] = c[1]
        /\ sizes'.sizeBytes # sizes.sizeBytes =>
               LET c == clampedSize(sizes.upload)
               IN  sizes'.sizeBytes * c[2] = c[1] * 1024 * 1024 ]_vars


C34_GatheringOrdersSignaling ==
    /\ [](rtc.status = 200 => rtc.gathering = "complete")
    /\ [](rtc.handler = "gatherComplete" => (rtc.status = 0 /\ sess[1].sig \in {"fetch", "failed"}))
    /\ [](sess[1].sig = "gathering" => (posts[1] = 0 /\ disabled /\ rtc.handler = "idle"))
    /\ [][ /\ (sess'[1].sig = "fetch" /\ sess[1].sig # "fetch") => sess[1].sig = "gathering"
           /\ (rtc'.handler # "idle" /\ rtc.handler = "idle") => sess[1].sig = "fetch"
           /\ sess[1].sig = "gathering" =>
                  (sess'[1].sig \in {"gathering", "fetch"} /\ posts' = posts
                       /\ disabled' = disabled /\ dom' = dom)
           /\ (rtc.handler = "gatherComplete" /\ rtc.gathering # "complete") =>
                  (rtc'.status = 0 /\ sess'[1].sig \in {"fetch", "failed"}) ]_vars

\* the answer was written after the server's gathering and has been applied
C34_Witness ==
    /\ sess[1].sig = "answered"
    /\ rtc.status = 200
    /\ rtc.gathering = "complete"
    /\ rtc.handler = "returned"
    /\ posts[1] = 0

\* C38: every peer connection webrtcOfferHandler creates is eventually closed.
C38_PeerConnectionClosed ==
    (rtc.pc \in {"new", "connected"}) ~> (rtc.pc = "closed")

\* C35: the timestamp of a persisted record is assigned by the server at
\* save time.  Whatever timestamp the /save-result body carries (none, or one
\* of the client's), the stored document and every later load of it carry a
\* value of the server's clock.
C35_ServerTimestamp ==
    /\ \A id \in DOMAIN store : store[id].timestamp \in ServerTimes
    /\ (resp.op = "load" /\ resp.status = 200) =>
           /\ resp.body.timestamp \in ServerTimes
           /\ resp.body.timestamp = store[resp.id].timestamp

\* a record saved from a body with a timestamp of its own has been loaded
C35_Witness ==
    /\ resp.op = "load"
    /\ resp.status = 200
    /\ accepted[resp.id].timestamp = 7
    /\ resp.body.timestamp \in ServerTimes

\* C36: while the page is showing a shared result (the URL carries a
\* resultId), no measurement run can be started: the start button is disabled
\* on load and nothing re-enables it.
C36_SharedPageStartsNoRun ==
    /\ [](( page.loaded /\ TruthyParam(getResultId(page.search)) ) =>
              ( disabled /\ curRun = 0 /\ \A r \in Runs : phase[r] = "idle" ))
    /\ [][ TruthyParam(getResultId(page.search)) =>
               ( curRun' = curRun /\ (disabled => disabled') /\ results' = results ) ]_vars

\* the shared record is on display and the button is still disabled
C36_Witness ==
    /\ page.fetch = "shown"
    /\ dom.download = 9412
    /\ disabled
    /\ curRun = 0

\* C37: a history entry shows, for a field that was measured in the run, the
\* measured value, and 'N/A' only for a field that was not measured.  Stated
\* for packet loss and jitter at the step that adds the entry: a loss or
\* jitter the analyzer has computed (0 included) is in the entry as its
\* two-decimal value, and the entry has 'N/A' only where none was computed.
C37_MeasuredZeroIsRecorded ==
    [][ Len(history') > Len(history) =>
            LET h == history'[1]
                measured(q) == q[1] # NA /\ q[2] # 0
            IN  /\ measured(results.packetLoss) => h.packetLoss = toFixed2(results.packetLoss)
                /\ measured(results.jitter) => h.jitter = toFixed2(results.jitter)
                /\ h.packetLoss = NA => ~measured(results.packetLoss)
                /\ h.jitter = NA => ~measured(results.jitter) ]_vars

\* the size C39 states for a requested size n, in bytes:
\* min(max(n * 2^20, 2^20), 100 * 2^20) over the integers
clampedTotal(n) ==
    IF WideGt(n, 100) THEN 100 * MiB
    ELSE IF WideLt(n, 1) THEN MiB
    ELSE n.lo * MiB

\* C39: the download handler of static/speedtest.js serves, for every int64
\* requested size N, min(max(N MB, 1 MB), 100 MB), computed without
\* wrap-around.
C39_NoWrapAround ==
    (dl.pc \in {"done", "aborted"} /\ dl.sizeParam.k = "int") =>
        dl.totalSize = clampedTotal(dl.sizeParam.v)

====
